---- MODULE Spec2Model ----
(***************************************************************************)
(* A model of the core of the ao compute unit (CU) and messenger unit (MU) *)
(* of kernelwhisperer/ao:                                                  *)
(*   - the process memory cache, its eviction callback and                 *)
(*     saveLatestProcessMemory                                             *)
(*     (servers/cu/src/domain/client/ao-process.js),                       *)
(*   - findProcessMemoryBefore: cache, Arweave checkpoints, cold start     *)
(*     (same file),                                                        *)
(*   - the MU monitor loop (servers/mu/src/domain/lib/monitor/worker.js),  *)
(*   - the hydration pipeline                                              *)
(*     (servers/cu/src/domain/lib/hydrateMessages.js),                     *)
(*   - the message source: loadInteractions of the sequencer client,       *)
(*   - isLaterThan, saveProcess and saveCheckpoint (ao-process.js),        *)
(*   - writeMessage of the MU's sequencer client (worker.js).              *)
(* Each part has a specification of its own (SpecCache, SpecFind,          *)
(* SpecMonitor, SpecHydrate, SpecLoad, SpecBounds, SpecOrder, SpecWrite,   *)
(* SpecProcess and SpecCheckpoint); the variables of the other parts stay  *)
(* at their idle values.                                                   *)
(***************************************************************************)
EXTENDS Integers, Sequences, FiniteSets, TLC

(***************************************************************************)
(* JavaScript values.  A numeric field that is absent (undefined) is the   *)
(* number Undefined; an absent string field is the empty string, which is  *)
(* falsy like undefined in every test the code makes on it.  Timestamps    *)
(* and cron intervals are modelled as naturals ordered as the code's `>`   *)
(* orders them (equal-width decimal strings); the cron 0 is the empty      *)
(* string.                                                                 *)
(***************************************************************************)
Undefined == -1

MaxTs == 2
MaxSaves == 2

ProcessIds == {"p1", "p2"}
Timestamps == 1..MaxTs
\* cron: absent, the empty string, and one interval
Crons == {Undefined, 0, 1}
\* memory snapshots: opaque byte buffers
Memories == {[raw |-> "mem1"], [raw |-> "mem2"]}
Ordinates == {"n1"}

\* obj.f of a JavaScript object: undefined when the object has no such field
Prop(obj, f) == IF f \in DOMAIN obj THEN obj[f] ELSE Undefined

\* a > b of JavaScript on numbers: false whenever a side is undefined
JsGt(a, b) == a # Undefined /\ b # Undefined /\ a > b

\* c itself, undefined when it is absent
OrUndefined(c) == c

\* (c || '')
OrEmpty(c) == IF c = Undefined THEN 0 ELSE c

\* isLaterThan(eval1, eval2): eval2 is later than eval1
isLaterThan(eval1, eval2) ==
  IF Prop(eval2, "timestamp") = Prop(eval1, "timestamp")
  THEN OrEmpty(Prop(eval2, "cron")) > OrEmpty(Prop(eval1, "cron"))
  ELSE JsGt(Prop(eval2, "timestamp"), Prop(eval1, "timestamp"))

isEarlierThan(eval1, eval2) == ~isLaterThan(eval1, eval2)

\* gzip and gunzip: gunzip undoes gzip and fails on anything gzip did not make
gzipP(mem) == [gz |-> mem]
IsGzipped(data) == DOMAIN data = {"gz"}
gunzipP(data) == data.gz

VARIABLES
  cache,        \* processMemoryCache: processId -> { Memory, evaluation }
  saveCalls,    \* saveLatestProcessMemory calls suspended in gzipP
  nSaves,       \* number of saveLatestProcessMemory calls made so far
  passed,       \* processId -> the evaluations passed to saveLatestProcessMemory
  ignoredCalls, \* saveLatestProcessMemory calls that returned without writing
  lru,          \* the keys of the cache, least recently used first
  onEvictionCalls, \* the arguments of the calls of onEviction, in order
  fpPc,         \* findProcessMemoryBefore: where the call is
  fpArgs,       \* its arguments { processId, timestamp, ordinate, cron }
  fpCached,     \* what cache.get returned to maybeCached
  fpEdges,      \* the edges the gateway answered with
  fpLatest,     \* latestCheckpoint of maybeCheckpointFromArweave
  fpFailure,    \* why the checkpoint lookup produced nothing, "" if it did not fail
  fpTrace,      \* the sources consulted, in order
  fpResult,     \* the value the call resolved with
  monitorDb,    \* the MU's stored monitors: id -> { valid, lastFromSortKey }
  pendingTicks, \* calls of processMonitors awaiting findLatestMonitors, with its answer
  nTicks,       \* ticks of the 1-second interval so far
  runningMonitorList, \* the in-flight list of worker.js
  runs,         \* calls of processMonitor that are suspended
  nRuns,        \* calls of processMonitor so far
  cuMax,        \* the CU's scheduled messages of a process have sort keys 1..cuMax
  cuInclusive,  \* whether the CU's ?from= bound is inclusive
  savedMsgs,    \* id -> sort keys of the scheduled messages saved with saveMsg
  cranked,      \* id -> sort key -> how many times the message was handed to crankMsgs
  lastOk,       \* the last run that returned { status: 'ok' }
  skipped,      \* whether shouldRun has kept a monitor that was in flight from starting
  \* the hydration pipeline of one evaluation
  hStatus,      \* the composed stream: "open", "ended" (the source ended) or "failed"
  hError,       \* which part errored: "" when none
  hEmitted,     \* how many messages the source has produced
  hQ,           \* hQ[i]: the messages waiting in front of the i-th transform
  hOut,         \* the messages the composed stream has emitted, in order
  hDropped,     \* the messages a transform took and did not yield
  hFailedAt,    \* the place in the source of the message a transform threw on: 0 when none
  \* one call of loadInteractions
  liPc,         \* "idle", "fetching", "resolved" or "rejected"
  liCtx,        \* the ctx of the call: from and to
  liQuery,      \* the from and to of the request sent to the sequencer
  liSu,         \* what the sequencer answered, and what it has beyond that page
  liWhy,        \* why the call rejected: "" when it did not
  liResult,     \* the interactions the call resolved with
  \* one comparison of two evaluations, in both directions
  ltEval1,      \* the first evaluation
  ltEval2,      \* the second evaluation
  ltForward,    \* <<isLaterThan(eval1, eval2)>>: empty until it was called
  ltBackward,    \* <<isLaterThan(eval2, eval1)>>: empty until it was called
  \* the MU's writeMessage
  wmCalls,   \* the calls of writeMessage: data, res, the SU's answer, the outcome
  nWrites,   \* calls of writeMessage so far
  \* saveProcess and the document store
  pouchDb,   \* the documents of the store: _id -> doc
  spCalls,   \* the calls of saveProcess: the process, the doc, the store's answer, the outcome
  nProcSaves,   \* calls of saveProcess so far
  \* saveCheckpoint and the gateway
  gateway,   \* the data items the gateway reports: owner and tags
  uploads,   \* the data items uploaded: the call and the item
  ckCalls,   \* the calls of saveCheckpoint: arguments, position, data item, outcome
  nCheckpoints   \* calls of saveCheckpoint so far

cacheVars == <<cache, saveCalls, nSaves, passed, ignoredCalls, lru, onEvictionCalls>>
findVars == <<fpPc, fpArgs, fpCached, fpEdges, fpLatest, fpFailure, fpTrace, fpResult>>

monVars == <<monitorDb, pendingTicks, nTicks, runningMonitorList, runs, nRuns,
             cuMax, cuInclusive, savedMsgs, cranked, lastOk, skipped>>

hydVars == <<hStatus, hError, hEmitted, hQ, hOut, hDropped, hFailedAt>>

loadVars == <<liPc, liCtx, liQuery, liSu, liWhy, liResult>>

orderVars == <<ltEval1, ltEval2, ltForward, ltBackward>>

writeVars == <<wmCalls, nWrites>>

procVars == <<pouchDb, spCalls, nProcSaves>>

ckVars == <<gateway, uploads, ckCalls, nCheckpoints>>

vars == <<cache, saveCalls, nSaves, passed, ignoredCalls, lru, onEvictionCalls,
          fpPc, fpArgs, fpCached, fpEdges, fpLatest, fpFailure, fpTrace, fpResult,
          monitorDb, pendingTicks, nTicks, runningMonitorList, runs, nRuns,
          cuMax, cuInclusive, savedMsgs, cranked, lastOk, skipped,
          hStatus, hError, hEmitted, hQ, hOut, hDropped, hFailedAt,
          liPc, liCtx, liQuery, liSu, liWhy, liResult,
          ltEval1, ltEval2, ltForward, ltBackward,
          wmCalls, nWrites,
          pouchDb, spCalls, nProcSaves,
          gateway, uploads, ckCalls, nCheckpoints>>

\* what the actions of each part leave alone
outsideCache == <<findVars, monVars, hydVars, loadVars, orderVars, writeVars, procVars, ckVars>>
outsideFind == <<cacheVars, monVars, hydVars, loadVars, orderVars, writeVars, procVars, ckVars>>
outsideMonitor == <<cacheVars, findVars, hydVars, loadVars, orderVars, writeVars, procVars, ckVars>>
outsideHydrate == <<cacheVars, findVars, monVars, loadVars, orderVars, writeVars, procVars, ckVars>>
outsideLoad == <<cacheVars, findVars, monVars, hydVars, orderVars, writeVars, procVars, ckVars>>
outsideOrder == <<cacheVars, findVars, monVars, hydVars, loadVars, writeVars, procVars, ckVars>>
outsideWrite == <<cacheVars, findVars, monVars, hydVars, loadVars, orderVars, procVars, ckVars>>
outsideProcess == <<cacheVars, findVars, monVars, hydVars, loadVars, orderVars, writeVars, ckVars>>
outsideCheckpoint == <<cacheVars, findVars, monVars, hydVars, loadVars, orderVars, writeVars, procVars>>

----
(***************************************************************************)
(* The process memory cache and saveLatestProcessMemory                    *)
(***************************************************************************)

\* cache.get(key): the entry, or NoEntry (undefined)
NoEntry == [none |-> TRUE]
CacheGet(c, key) == IF key \in DOMAIN c THEN c[key] ELSE NoEntry

\* cache.set(key, value) on a cache with room for the value
CacheSet(c, key, value) == [k \in DOMAIN c \cup {key} |-> IF k = key THEN value ELSE c[k]]

\* maxSize of the LRUCache
MAX_SIZE == 2

\* Memory.byteLength of a compressed snapshot: no snapshot is larger than MAX_SIZE
byteLength(Memory) == IF Memory.gz.raw = "mem1" THEN 1 ELSE 2

\* sizeCalculation: ({ Memory }) => Memory.byteLength
sizeCalculation(value) == byteLength(value.Memory)

\* noDisposeOnSet: true
noDisposeOnSet == TRUE

\* the library's record of an entry that left the cache
Disposal(c, key, reason) == [value |-> c[key], key |-> key, reason |-> reason]

\* the recency order after key was read or written: key becomes the most recent
Touch(l, key) == SelectSeq(l, LAMBDA k : k # key) \o <<key>>

\* the sum of the sizes of the entries of the keys in l
RECURSIVE calculatedSize(_, _)
calculatedSize(c, l) ==
  IF l = <<>> THEN 0 ELSE sizeCalculation(c[Head(l)]) + calculatedSize(c, Tail(l))

\* the library makes room for size bytes: it evicts the least recently used
\* entries of l until the rest and the new value fit into maxSize
RECURSIVE evict(_, _, _)
evict(c, l, size) ==
  IF l # <<>> /\ calculatedSize(c, l) > MAX_SIZE - size
  THEN LET rest == evict(c, Tail(l), size)
       IN [lru |-> rest.lru,
           disposed |-> <<Disposal(c, Head(l), "evict")>> \o rest.disposed]
  ELSE [lru |-> l, disposed |-> <<>>]

\* cache.set(key, value) of the LRUCache: the entry of key is overwritten (and
\* disposed of with reason 'set' unless noDisposeOnSet), key becomes the most
\* recent, and the least recently used of the other entries are evicted
LruSet(c, l, key, value) ==
  LET others == SelectSeq(l, LAMBDA k : k # key)
      room == evict(c, others, sizeCalculation(value))
      kept == {room.lru[i] : i \in 1..Len(room.lru)}
  IN  [cache |-> [k \in kept \cup {key} |-> IF k = key THEN value ELSE c[k]],
       lru |-> room.lru \o <<key>>,
       disposed |-> (IF key \in DOMAIN c /\ ~noDisposeOnSet
                     THEN <<Disposal(c, key, "set")>> ELSE <<>>) \o room.disposed]

\* disposeAfter: (value, key, reason) => { if (reason !== 'evict') return; onEviction({ key, value }) }
disposeAfterAnyReason(d) == <<[key |-> d.key, value |-> d.value]>>

disposeAfter(d) ==
  IF d.reason # "evict" THEN <<>> ELSE <<[key |-> d.key, value |-> d.value]>>

\* the calls of onEviction the library's disposals lead to, in order
RECURSIVE disposeAll(_)
disposeAll(disposed) ==
  IF disposed = <<>> THEN <<>> ELSE disposeAfter(Head(disposed)) \o disposeAll(Tail(disposed))

\* the arguments of a call of saveLatestProcessMemory
SaveArgs ==
  [processId : ProcessIds, moduleId : {"mod1"}, timestamp : Timestamps, epoch : {0},
   nonce : Ordinates, blockHeight : {1}, ordinate : Ordinates, cron : Crons,
   Memory : Memories]

\* the evaluation of a call, as the code compares it: { timestamp, ordinate, cron }
Incoming(a) == [timestamp |-> a.timestamp, ordinate |-> a.ordinate, cron |-> a.cron]

\* the entry cache.set stores
CacheEntry(a) ==
  [Memory |-> gzipP(a.Memory),
   evaluation |-> [processId |-> a.processId, moduleId |-> a.moduleId,
                   timestamp |-> a.timestamp, epoch |-> a.epoch, nonce |-> a.nonce,
                   blockHeight |-> a.blockHeight, ordinate |-> a.ordinate,
                   encoding |-> "gzip", cron |-> a.cron]]

\* the guard as it would be on the cached evaluation
SaveIgnoredIfEvaluationEarlier(cached, a) ==
  cached # NoEntry /\ isLaterThan(cached.evaluation, Incoming(a))

\* the guard of saveLatestProcessMemory: cached && isLaterThan(cached, { timestamp, ordinate, cron })
SaveIgnored(cached, a) == cached # NoEntry /\ isLaterThan(cached, Incoming(a))

\* saveLatestProcessMemory up to its await: read the cache, return early or start compressing
SaveLatestCall ==
  \E a \in SaveArgs :
    /\ nSaves < MaxSaves
    /\ nSaves' = nSaves + 1
    /\ passed' = [passed EXCEPT ![a.processId] = @ \cup {Incoming(a)}]
    /\ LET cached == CacheGet(cache, a.processId)
           call == [n |-> nSaves + 1, args |-> a, cached |-> cached]
       IN IF SaveIgnored(cached, a)
          THEN saveCalls' = saveCalls /\ ignoredCalls' = ignoredCalls \cup {call}
          ELSE saveCalls' = saveCalls \cup {call} /\ ignoredCalls' = ignoredCalls
    /\ cache' = cache
    /\ lru' = IF a.processId \in DOMAIN cache THEN Touch(lru, a.processId) ELSE lru
    /\ UNCHANGED onEvictionCalls
    /\ UNCHANGED outsideCache

\* gzipP resolved: cache.set
SaveLatestSet ==
  \E c \in saveCalls :
    /\ LET set == LruSet(cache, lru, c.args.processId, CacheEntry(c.args))
       IN /\ cache' = set.cache
          /\ lru' = set.lru
          /\ onEvictionCalls' = onEvictionCalls \o disposeAll(set.disposed)
    /\ saveCalls' = saveCalls \ {c}
    /\ UNCHANGED <<nSaves, passed, ignoredCalls>>
    /\ UNCHANGED outsideCache

\* the ttl of an entry has passed and the library removes the stale entry
TtlExpires ==
  \E key \in DOMAIN cache :
    LET disposed == <<Disposal(cache, key, "delete")>>
    IN /\ cache' = [k \in DOMAIN cache \ {key} |-> cache[k]]
       /\ lru' = SelectSeq(lru, LAMBDA k : k # key)
       /\ onEvictionCalls' = onEvictionCalls \o disposeAll(disposed)
       /\ UNCHANGED <<saveCalls, nSaves, passed, ignoredCalls>>
       /\ UNCHANGED outsideCache

CacheIdle ==
  /\ cache = <<>>
  /\ saveCalls = {}
  /\ nSaves = 0
  /\ passed = [p \in ProcessIds |-> {}]
  /\ ignoredCalls = {}
  /\ lru = <<>>
  /\ onEvictionCalls = <<>>

CacheNext == SaveLatestCall \/ SaveLatestSet \/ TtlExpires

----
(***************************************************************************)
(* findProcessMemoryBefore: cache, then Arweave checkpoints, then cold     *)
(* start                                                                   *)
(***************************************************************************)
MaxEdges == 2

NoArgs == [none |-> TRUE]
NoCheckpoint == [none |-> TRUE]
NoResult == [none |-> TRUE]
NullMemory == [null |-> TRUE]

\* pouchdb.js is not among the sources: the constant is kept by name
COLLATION_SEQUENCE_MIN_CHAR == "COLLATION_SEQUENCE_MIN_CHAR"

\* the Content-Encoding tag of a checkpoint: absent, gzip, or another encoding
Encodings == {"", "gzip", "br"}

\* a checkpoint transaction as the gateway lists it; the fields are its tags
\* Timestamp, Nonce, Block-Height, Cron-Interval (Undefined when absent) and
\* Content-Encoding ("" when absent)
CheckpointNodes ==
  [Timestamp : Timestamps, Nonce : Ordinates, BlockHeight : {1},
   CronInterval : {Undefined, 1}, ContentEncoding : Encodings]

RECURSIVE SeqsUpTo(_, _)
SeqsUpTo(S, n) ==
  IF n = 0 THEN {<<>>}
  ELSE LET shorter == SeqsUpTo(S, n - 1)
       IN shorter \cup {Append(s, x) : s \in {t \in shorter : Len(t) = n - 1}, x \in S}

\* the lists of edges a gateway may answer with; a node's id is its place in the list
EdgeLists == SeqsUpTo(CheckpointNodes, MaxEdges)

\* map(prop('node')), then the map to { id, timestamp, ordinate, blockHeight, cron, encoding }
CheckpointOf(edges, i) ==
  [id |-> i,
   timestamp |-> edges[i].Timestamp,
   ordinate |-> edges[i].Nonce,
   blockHeight |-> edges[i].BlockHeight,
   cron |-> edges[i].CronInterval,
   encoding |-> edges[i].ContentEncoding]

\* the reducer of determineLatestCheckpointBefore
LatestStep(req, latest, checkpoint) ==
  IF latest = NoCheckpoint THEN checkpoint
  ELSE IF isLaterThan(req, checkpoint) THEN latest
  ELSE IF isEarlierThan(latest, checkpoint) THEN latest
  ELSE checkpoint

RECURSIVE LatestFold(_, _, _, _)
LatestFold(req, edges, i, latest) ==
  IF i > Len(edges) THEN latest
  ELSE LatestFold(req, edges, i + 1, LatestStep(req, latest, CheckpointOf(edges, i)))

\* determineLatestCheckpointBefore({ timestamp, ordinate, cron })(edges)
determineLatestCheckpointBefore(req, edges) == LatestFold(req, edges, 1, NoCheckpoint)

\* { timestamp, ordinate, cron } of the arguments
Requested(a) == [timestamp |-> a.timestamp, ordinate |-> a.ordinate, cron |-> a.cron]

\* a mutant of maybeCached's test: the arguments of isLaterThan swapped
MaybeCachedRejectsSwapped(cached, a) ==
  \/ cached = NoEntry
  \/ (a.timestamp # Undefined /\ isLaterThan(cached.evaluation, Requested(a)))

\* a mutant of maybeCached's test: only !cached
MaybeCachedRejectsOnlyAbsent(cached, a) == cached = NoEntry

\* maybeCached's test: !cached || (timestamp && isLaterThan({ timestamp, ordinate, cron }, cached.evaluation))
MaybeCachedRejects(cached, a) ==
  \/ cached = NoEntry
  \/ (a.timestamp # Undefined /\ isLaterThan(Requested(a), cached.evaluation))

\* a mutant of the chain: the gateway is asked whatever maybeCached answered
AfterMaybeCachedAlwaysGateway(rejected) == "queryGateway"

\* .chain(maybeCached).bichain(maybeCheckpointFromArweave, Resolved)
AfterMaybeCached(rejected) == IF rejected THEN "queryGateway" ELSE "gunzipCached"

\* decodeData(encoding) throws for an encoding that is set and is not gzip
DecodeDataThrows(encoding) == encoding # "" /\ encoding # "gzip"

\* the value coldStart resolves with
ColdStartValue ==
  [Memory |-> NullMemory, timestamp |-> Undefined, blockHeight |-> Undefined,
   cron |-> Undefined, ordinate |-> COLLATION_SEQUENCE_MIN_CHAR]

\* the value maybeCached resolves with
CachedValue(cached, Memory) ==
  [Memory |-> Memory, timestamp |-> cached.evaluation.timestamp,
   blockHeight |-> cached.evaluation.blockHeight,
   cron |-> cached.evaluation.cron, ordinate |-> cached.evaluation.ordinate]

\* the value maybeCheckpointFromArweave resolves with
CheckpointValue(latest, Memory) ==
  [Memory |-> Memory, timestamp |-> latest.timestamp, blockHeight |-> latest.blockHeight,
   cron |-> latest.cron, ordinate |-> latest.ordinate]

FindArgs ==
  [processId : {"p1"}, timestamp : Timestamps \cup {Undefined},
   ordinate : Ordinates, cron : Crons]

\* .bichain(coldStart, Resolved) on a rejected checkpoint lookup
ColdStart(why) ==
  /\ fpPc' = "resolved"
  /\ fpFailure' = why
  /\ fpTrace' = fpTrace \o <<"checkpointRejected", "coldStart">>
  /\ fpResult' = ColdStartValue

\* the call, up to its first suspension: maybeCached, and on a miss the gateway query
FindStart ==
  \E a \in FindArgs :
    /\ fpPc = "idle"
    /\ LET cached == CacheGet(cache, a.processId)
           rejected == MaybeCachedRejects(cached, a)
           next == AfterMaybeCached(rejected)
       IN /\ fpArgs' = a
          /\ fpCached' = cached
          /\ fpPc' = next
          /\ fpTrace' = <<IF rejected THEN "cacheMiss" ELSE "cacheHit">>
                        \o (IF next = "queryGateway" THEN <<"gatewayQuery">> ELSE <<>>)
    /\ UNCHANGED <<fpEdges, fpLatest, fpFailure, fpResult>>
    /\ UNCHANGED outsideFind

\* gunzipP(cached.Memory) settled
GunzipCachedDone ==
  /\ fpPc = "gunzipCached"
  /\ IF fpCached # NoEntry /\ IsGzipped(fpCached.Memory)
     THEN /\ fpPc' = "resolved"
          /\ fpResult' = CachedValue(fpCached, gunzipP(fpCached.Memory))
          /\ fpTrace' = fpTrace
     ELSE \* the rejection falls through to maybeCheckpointFromArweave
          /\ fpPc' = "queryGateway"
          /\ fpResult' = fpResult
          /\ fpTrace' = Append(fpTrace, "gatewayQuery")
  /\ UNCHANGED <<fpArgs, fpCached, fpEdges, fpLatest, fpFailure>>
  /\ UNCHANGED outsideFind

\* queryGateway settled: determineLatestCheckpointBefore, then the download is built
GatewayResponds ==
  /\ fpPc = "queryGateway"
  /\ \/ /\ ColdStart("gateway")
        /\ UNCHANGED <<fpEdges, fpLatest>>
     \/ \E edges \in EdgeLists :
          LET latest == determineLatestCheckpointBefore(Requested(fpArgs), edges)
          IN /\ fpEdges' = edges
             /\ fpLatest' = latest
             /\ IF latest = NoCheckpoint
                THEN ColdStart("none")
                ELSE IF DecodeDataThrows(latest.encoding)
                THEN \* thrown while the chain is built, inside the continuation of the
                     \* gateway's promise: no handler of the chain sees it, and the
                     \* promise of findProcessMemoryBefore is never settled
                     /\ fpPc' = "unsettled"
                     /\ fpFailure' = "encoding"
                     /\ UNCHANGED <<fpTrace, fpResult>>
                ELSE /\ fpPc' = "download"
                     /\ fpTrace' = Append(fpTrace, "checkpointFound")
                     /\ UNCHANGED <<fpFailure, fpResult>>
  /\ UNCHANGED <<fpArgs, fpCached>>
  /\ UNCHANGED outsideFind

\* loadTransactionData, res.arrayBuffer() and the decoding settled
DownloadResponds ==
  /\ fpPc = "download"
  /\ \/ ColdStart("download")
     \/ \E mem \in Memories, zipped \in BOOLEAN :
          LET body == IF zipped THEN gzipP(mem) ELSE mem
          IN IF fpLatest.encoding = ""
             THEN /\ fpPc' = "resolved"
                  /\ fpResult' = CheckpointValue(fpLatest, body)
                  /\ UNCHANGED <<fpFailure, fpTrace>>
             ELSE IF IsGzipped(body)
             THEN /\ fpPc' = "resolved"
                  /\ fpResult' = CheckpointValue(fpLatest, gunzipP(body))
                  /\ UNCHANGED <<fpFailure, fpTrace>>
             ELSE ColdStart("decode")
  /\ UNCHANGED <<fpArgs, fpCached, fpEdges, fpLatest>>
  /\ UNCHANGED outsideFind

FindIdle ==
  /\ fpPc = "idle"
  /\ fpArgs = NoArgs
  /\ fpCached = NoEntry
  /\ fpEdges = <<>>
  /\ fpLatest = NoCheckpoint
  /\ fpFailure = ""
  /\ fpTrace = <<>>
  /\ fpResult = NoResult

FindNext == FindStart \/ GunzipCachedDone \/ GatewayResponds \/ DownloadResponds

----
(***************************************************************************)
(* The MU monitor loop (worker.js)                                         *)
(***************************************************************************)
MaxTicks == 2
MaxSortKey == 2

MonitorIds == {"m1", "m2"}
\* the order in which findLatestMonitors lists the monitors
MonitorOrder == <<"m1", "m2">>

\* lastFromSortKey: null
NullSortKey == 0
SortKeys == 1..MaxSortKey

\* the CU's answer to /scheduled/{id}[?from=]: the scheduled messages of the
\* process from the bound on, in ascending sort key order (the CU's route is not
\* among the sources; the Result Store returns ranges in ascending sortKey)
RECURSIVE Ascending(_, _)
Ascending(lo, hi) == IF lo > hi THEN <<>> ELSE <<lo>> \o Ascending(lo + 1, hi)
ScheduledFrom(id, from) ==
  Ascending(IF from = NullSortKey THEN 1 ELSE IF cuInclusive THEN from ELSE from + 1,
            cuMax[id])

\* a mutant of shouldRun: the in-flight list is not looked at
shouldRunAlways(list, id) == TRUE

\* shouldRun(monitor)
shouldRun(list, id) == ~\E i \in 1..Len(list) : list[i].id = id

\* processMonitor(monitor) up to its first await: the push, and the fetch is sent
NewRun(n, id, monitor) ==
  [n |-> n, id |-> id, pc |-> "fetching", lastFromSortKey |-> monitor.lastFromSortKey,
   scheduled |-> <<>>, saved |-> {}]

\* monitorList.map(...) of processMonitors, from the i-th monitor on
RECURSIVE StartRuns(_, _, _, _, _, _)
StartRuns(monitorList, i, list, rs, n, skip) ==
  IF i > Len(MonitorOrder) THEN [list |-> list, runs |-> rs, n |-> n, skipped |-> skip]
  ELSE LET id == MonitorOrder[i]
           monitor == monitorList[id]
       IN IF ~monitor.valid
          THEN StartRuns(monitorList, i + 1, list, rs, n, skip)
          ELSE IF shouldRun(list, id)
          THEN StartRuns(monitorList, i + 1, Append(list, [n |-> n + 1, id |-> id]),
                         rs \cup {NewRun(n + 1, id, monitor)}, n + 1, skip)
          ELSE StartRuns(monitorList, i + 1, list, rs, n, TRUE)

\* the .then of processMonitors: findIndex by id, then splice
RemoveRunning(list, id) ==
  IF \E i \in 1..Len(list) : list[i].id = id
  THEN LET k == CHOOSE i \in 1..Len(list) :
                  list[i].id = id /\ \A j \in 1..(i - 1) : list[j].id # id
       IN SubSeq(list, 1, k - 1) \o SubSeq(list, k + 1, Len(list))
  ELSE list

\* a mutant of the choice of lastScheduled: the first message of the batch
lastScheduledFirst(scheduled) == scheduled[1]

\* scheduled[scheduled.length - 1].scheduledSortKey
lastScheduled(scheduled) == scheduled[Len(scheduled)]

NoRun == [none |-> TRUE]

\* the interval fires: processMonitors is called and findLatestMonitors answers
TickLoad ==
  /\ nTicks < MaxTicks
  /\ nTicks' = nTicks + 1
  /\ \/ pendingTicks' = pendingTicks \cup {[n |-> nTicks + 1, monitorList |-> monitorDb]}
     \/ \* findLatestMonitors rejects: caught and logged
        pendingTicks' = pendingTicks
  /\ UNCHANGED <<monitorDb, runningMonitorList, runs, nRuns, cuMax, cuInclusive,
                 savedMsgs, cranked, lastOk, skipped>>
  /\ UNCHANGED outsideMonitor

\* processMonitors after its await: every valid monitor that should run is started
TickProcess ==
  \E t \in pendingTicks :
    LET started == StartRuns(t.monitorList, 1, runningMonitorList, runs, nRuns, skipped)
    IN /\ pendingTicks' = pendingTicks \ {t}
       /\ skipped' = started.skipped
       /\ runningMonitorList' = started.list
       /\ runs' = started.runs
       /\ nRuns' = started.n
       /\ UNCHANGED <<monitorDb, nTicks, cuMax, cuInclusive, savedMsgs, cranked, lastOk>>
       /\ UNCHANGED outsideMonitor

\* the run resolved: the .then of processMonitors removes the monitor from the list
RunResolves(r) ==
  /\ runs' = runs \ {r}
  /\ runningMonitorList' = RemoveRunning(runningMonitorList, r.id)

\* the run rejected: nothing handles the rejection, the list keeps the monitor
RunRejects(r) ==
  /\ runs' = runs \ {r}
  /\ runningMonitorList' = runningMonitorList

Advance(r, pc) == runs' = (runs \ {r}) \cup {[r EXCEPT !.pc = pc]}

\* a mutant of the test on the answer: every list goes on to be saved
NoScheduledNever(scheduled) == FALSE

\* !scheduled || scheduled.length < 1, on a list
NoScheduled(scheduled) == Len(scheduled) < 1

\* fetchScheduled settled
FetchResponds ==
  \E r \in runs :
    /\ r.pc = "fetching"
    /\ \/ \E scheduled \in {ScheduledFrom(r.id, r.lastFromSortKey)} :
            IF NoScheduled(scheduled)
            THEN RunResolves(r)
            ELSE /\ runs' = (runs \ {r}) \cup {[r EXCEPT !.pc = "saving", !.scheduled = scheduled]}
                 /\ runningMonitorList' = runningMonitorList
       \/ \* the fetch failed: fetchScheduled logs and returns undefined
          RunResolves(r)
       \/ \* the body is JSON that is not a list: scheduled.map throws
          RunRejects(r)
    /\ UNCHANGED <<monitorDb, pendingTicks, nTicks, nRuns, cuMax, cuInclusive,
                   savedMsgs, cranked, lastOk, skipped>>
    /\ UNCHANGED outsideMonitor

\* a mutant of Promise.all: it waits for every save and never rejects
PromiseAllSettled(done, keys) == FALSE

\* Promise.all(savePromises) rejects as soon as one saveMsg rejects
PromiseAllRejects(done, keys) == done # keys

\* Promise.all(savePromises) settled: on a rejection some of the saves were made
SaveMsgsDone ==
  \E r \in runs :
    /\ r.pc = "saving"
    /\ LET keys == {r.scheduled[i] : i \in 1..Len(r.scheduled)}
       IN \E done \in SUBSET keys :
            /\ savedMsgs' = [savedMsgs EXCEPT ![r.id] = @ \cup done]
            /\ IF PromiseAllRejects(done, keys)
               THEN RunRejects(r)
               ELSE /\ runs' = (runs \ {r}) \cup
                                 {[r EXCEPT !.pc = "findingMsgs", !.saved = done]}
                    /\ runningMonitorList' = runningMonitorList
    /\ UNCHANGED <<monitorDb, pendingTicks, nTicks, nRuns, cuMax, cuInclusive,
                   cranked, lastOk, skipped>>
    /\ UNCHANGED outsideMonitor

\* findLatestMsgs({ fromTxId }) settled
FindLatestMsgsDone ==
  \E r \in runs :
    /\ r.pc = "findingMsgs"
    /\ \/ /\ Advance(r, "cranking")
          /\ runningMonitorList' = runningMonitorList
       \/ RunRejects(r)
    /\ UNCHANGED <<monitorDb, pendingTicks, nTicks, nRuns, cuMax, cuInclusive,
                   savedMsgs, cranked, lastOk, skipped>>
    /\ UNCHANGED outsideMonitor

Min(a, b) == IF a < b THEN a ELSE b

\* apis.crankMsgs settled; on success monitor.lastFromSortKey is set and updateMonitor is sent
CrankDone ==
  \E r \in runs :
    /\ r.pc = "cranking"
    /\ cranked' = [cranked EXCEPT ![r.id] =
                     [k \in SortKeys |->
                        IF k \in {r.scheduled[i] : i \in 1..Len(r.scheduled)}
                        THEN Min(@[k] + 1, 2) ELSE @[k]]]
    /\ \/ /\ runs' = (runs \ {r}) \cup
                       {[r EXCEPT !.pc = "updating",
                                  !.lastFromSortKey = lastScheduled(r.scheduled)]}
          /\ runningMonitorList' = runningMonitorList
       \/ RunRejects(r)
    /\ UNCHANGED <<monitorDb, pendingTicks, nTicks, nRuns, cuMax, cuInclusive,
                   savedMsgs, lastOk, skipped>>
    /\ UNCHANGED outsideMonitor

\* updateMonitor(monitor) settled
UpdateMonitorDone ==
  \E r \in runs :
    /\ r.pc = "updating"
    /\ \/ /\ monitorDb' = [monitorDb EXCEPT ![r.id].lastFromSortKey = r.lastFromSortKey]
          /\ lastOk' = [id |-> r.id, scheduled |-> r.scheduled, persisted |-> r.lastFromSortKey]
          /\ RunResolves(r)
       \/ /\ RunRejects(r)
          /\ UNCHANGED <<monitorDb, lastOk>>
    /\ UNCHANGED <<pendingTicks, nTicks, nRuns, cuMax, cuInclusive, savedMsgs, cranked,
                   skipped>>
    /\ UNCHANGED outsideMonitor

\* the CU evaluates one more scheduled message of a process
CuProduces ==
  \E id \in MonitorIds :
    /\ cuMax[id] < MaxSortKey
    /\ cuMax' = [cuMax EXCEPT ![id] = @ + 1]
    /\ UNCHANGED <<monitorDb, pendingTicks, nTicks, runningMonitorList, runs, nRuns,
                   cuInclusive, savedMsgs, cranked, lastOk, skipped>>
    /\ UNCHANGED outsideMonitor

MonitorIdle ==
  /\ monitorDb = [id \in MonitorIds |-> [valid |-> TRUE, lastFromSortKey |-> NullSortKey]]
  /\ pendingTicks = {}
  /\ nTicks = 0
  /\ runningMonitorList = <<>>
  /\ runs = {}
  /\ nRuns = 0
  /\ cuMax = [id \in MonitorIds |-> 0]
  /\ cuInclusive = FALSE
  /\ savedMsgs = [id \in MonitorIds |-> {}]
  /\ cranked = [id \in MonitorIds |-> [k \in SortKeys |-> 0]]
  /\ lastOk = NoRun
  /\ skipped = FALSE

MonitorNext ==
  \/ TickLoad \/ TickProcess \/ FetchResponds \/ SaveMsgsDone \/ FindLatestMsgsDone
  \/ CrankDone \/ UpdateMonitorDone \/ CuProduces

----
(***************************************************************************)
(* The hydration pipeline (hydrateMessages.js)                             *)
(*                                                                         *)
(* composeStreams($messages, maybeMessageId, maybeAoLoad,                  *)
(* maybeAoAssignment, validator).  Each transform is an async generator:   *)
(* it takes the next message of its input, awaits what it needs for that   *)
(* message, yields or skips it, and only then takes the next one.  The     *)
(* transforms run concurrently with one another, each on its own message.  *)
(***************************************************************************)

MaxMsgs == 2

AO_LOAD_MAX_BLOCK == 1

BlockHeights == {AO_LOAD_MAX_BLOCK - 1, AO_LOAD_MAX_BLOCK}

Transforms == 1..4

\* What the transforms and the validator read of a message `cur`:
\*   ForwardedBy   cur.message['Forwarded-By'] is set
\*   ForwardedFor  cur.message['Forwarded-For'] is set (read by no transform)
\*   LoadTag       cur.message.Tags holds a tag named Load
\*   Cron          cur.message.Cron is set
\*   height        cur.block.height
\*   isAssignment  cur.isAssignment
\* Cron is only read of a message with a Load tag (`!tag || cur.message.Cron`).
\* Whether cur has the fields messageSchema requires is read by the validator alone and is
\* drawn when the validator parses cur.
SourceMessages ==
  {m \in [ForwardedBy : BOOLEAN, ForwardedFor : BOOLEAN, LoadTag : BOOLEAN, Cron : BOOLEAN,
          height : BlockHeights, isAssignment : BOOLEAN] :
     /\ m.ForwardedFor => m.ForwardedBy
     /\ m.Cron => m.LoadTag}

\* the pos-th message of the source; Data is whose data cur.message.Data holds,
\* overlay the keys of cur.message whose values are those of the transaction on
\* chain, applied the transforms that did not pass the message through
Envelope(pos, m) ==
  [pos |-> pos, ForwardedBy |-> m.ForwardedBy, ForwardedFor |-> m.ForwardedFor,
   LoadTag |-> m.LoadTag, Cron |-> m.Cron, height |-> m.height,
   isAssignment |-> m.isAssignment,
   deepHash |-> FALSE, Data |-> "own", overlay |-> {}, applied |-> {}]

YieldFirst(q, cur) == <<cur>> \o q

\* `yield cur`: cur is the next message of the transform's output
Yield(q, cur) == Append(q, cur)

withoutDeepHash(cur) == cur

\* cur.deepHash = await calcDataItemDeepHash(...)
withDeepHash(cur) ==
  [cur EXCEPT !.deepHash = TRUE, !.applied = @ \cup {"deepHash"}]

\* cur.message.Data = await loadFromChain(tag.value, true): the JSON of the data
\* item, its data encoded
withLoad(cur) ==
  [cur EXCEPT !.Data = "loadedItem", !.applied = @ \cup {"load"}]

loadFromChainAndTarget ==
  {"Id", "Signature", "Owner", "From", "Tags", "Anchor", "Data", "Target"}

\* the keys of the JSON of a data item that loadFromChain constructs
loadFromChain == {"Id", "Signature", "Owner", "From", "Tags", "Anchor", "Data"}

\* mergeRight(l, r) on the keys whose values are r's: every key of r
mergeRight(l, r) == l \cup r

\* cur.message = mergeRight(cur.message, await loadFromChain(cur.message.Id)); the
\* Data is not encoded
withAssignment(cur) ==
  [cur EXCEPT !.Data = "chainData", !.overlay = mergeRight(@, loadFromChain),
              !.applied = @ \cup {"assignment"}]

\* messageSchema.parse(cur): the object `message` is not passthrough, so the keys
\* the schema does not name (Data, Tags, Cron, Id, Owner, ...) are not in the
\* parsed value; the keys of cur itself are kept
messageSchemaParse(cur) ==
  [cur EXCEPT !.Data = "", !.overlay = {}, !.LoadTag = FALSE, !.Cron = FALSE]

\* a generator threw (or the source errored and the pipeline was destroyed):
\* the composed stream is destroyed with what it buffered
Destroyed(err, at) ==
  /\ hStatus' = "failed"
  /\ hError' = err
  /\ hFailedAt' = at
  /\ hQ' = [i \in Transforms |-> <<>>]
  /\ UNCHANGED <<hEmitted, hOut, hDropped>>

\* the i-th transform is done with the head of its input: it yields out, or
\* skips the message
Passes(i, out) ==
  /\ hQ' = [hQ EXCEPT ![i] = Tail(@), ![i + 1] = Yield(@, out)]
  /\ UNCHANGED <<hStatus, hError, hEmitted, hOut, hDropped, hFailedAt>>

Skips(i) ==
  /\ hQ' = [hQ EXCEPT ![i] = Tail(@)]
  /\ hDropped' = hDropped \cup {Head(hQ[i])}
  /\ UNCHANGED <<hStatus, hError, hEmitted, hOut, hFailedAt>>

\* the source produces its next message
SourceEmit ==
  /\ hStatus = "open"
  /\ hEmitted < MaxMsgs
  /\ \E m \in SourceMessages :
       hQ' = [hQ EXCEPT ![1] = Yield(@, Envelope(hEmitted + 1, m))]
  /\ hEmitted' = hEmitted + 1
  /\ UNCHANGED <<hStatus, hError, hOut, hDropped, hFailedAt>>
  /\ UNCHANGED outsideHydrate

SourceEnd ==
  /\ hStatus = "open"
  /\ hStatus' = "ended"
  /\ UNCHANGED <<hError, hEmitted, hQ, hOut, hDropped, hFailedAt>>
  /\ UNCHANGED outsideHydrate

\* $messages.on('error', () => $messages.emit('end')): the source is ended; the
\* pipeline is destroyed with the error, or ends normally on the 'end'
SourceError ==
  /\ hStatus = "open"
  /\ \/ /\ hStatus' = "ended"
        /\ hError' = "source"
        /\ UNCHANGED <<hEmitted, hQ, hOut, hDropped, hFailedAt>>
     \/ Destroyed("source", 0)
  /\ UNCHANGED outsideHydrate

maybeMessageId ==
  /\ hStatus # "failed"
  /\ hQ[1] # <<>>
  /\ LET cur == Head(hQ[1])
     IN IF ~cur.ForwardedBy
        THEN Passes(1, cur)
        ELSE \/ Passes(1, withDeepHash(cur))
             \/ Destroyed("deepHash", cur.pos)
  /\ UNCHANGED outsideHydrate

NoLoadWorkIgnoringCron(cur) == ~cur.LoadTag

\* `!tag || cur.message.Cron`: a cron message, or not a Load message: no work
NoLoadWork(cur) == ~cur.LoadTag \/ cur.Cron

LoadSunsetAlways(cur) == TRUE

\* cur.block.height >= AO_LOAD_MAX_BLOCK: the Load message was scheduled after the
\* block at which Load messages are deactivated
LoadSunset(cur) == cur.height >= AO_LOAD_MAX_BLOCK

maybeAoLoad ==
  /\ hStatus # "failed"
  /\ hQ[2] # <<>>
  /\ LET cur == Head(hQ[2])
     IN IF NoLoadWork(cur)
        THEN Passes(2, cur)
        ELSE IF LoadSunset(cur)
        THEN Skips(2)
        ELSE \/ Passes(2, withLoad(cur))
             \/ Destroyed("load", cur.pos)
  /\ UNCHANGED outsideHydrate

maybeAoAssignment ==
  /\ hStatus # "failed"
  /\ hQ[3] # <<>>
  /\ LET cur == Head(hQ[3])
     IN IF ~cur.isAssignment
        THEN Passes(3, cur)
        ELSE \/ Passes(3, withAssignment(cur))
             \/ Destroyed("assignment", cur.pos)
  /\ UNCHANGED outsideHydrate

\* the last transform: for await (const cur of messages) yield messageSchema.parse(cur)
ensureSchema ==
  /\ hStatus # "failed"
  /\ hQ[4] # <<>>
  /\ LET cur == Head(hQ[4])
     IN \/ /\ hQ' = [hQ EXCEPT ![4] = Tail(@)]
           /\ hOut' = Yield(hOut, messageSchemaParse(cur))
           /\ UNCHANGED <<hStatus, hError, hEmitted, hDropped, hFailedAt>>
        \/ Destroyed("schema", cur.pos)
  /\ UNCHANGED outsideHydrate

HydrateIdle ==
  /\ hStatus = "open"
  /\ hError = ""
  /\ hEmitted = 0
  /\ hQ = [i \in Transforms |-> <<>>]
  /\ hOut = <<>>
  /\ hDropped = {}
  /\ hFailedAt = 0

HydrateNext ==
  \/ SourceEmit
  \/ SourceEnd
  \/ SourceError
  \/ maybeMessageId
  \/ maybeAoLoad
  \/ maybeAoAssignment
  \/ ensureSchema

----
(***************************************************************************)
(* The message source: loadInteractions of the sequencer client            *)
(*                                                                         *)
(* A string is the sequence of its characters.  A sort key is              *)
(* "height", "height,hash" or "height,timestamp,hash"; the timestamp and   *)
(* the hash are the one character strings "t" and "h".                     *)
(***************************************************************************)

MaxHeightDigits == 2

PadWidth == 12

Digits == {"0", "1", "9"}

\* the block heights as written: without padding, and padded to PadWidth
HeightStrings ==
  LET plain == UNION {[1..n -> Digits] : n \in 1..MaxHeightDigits}
  IN plain \cup {[i \in 1..(PadWidth - Len(h)) |-> "0"] \o h : h \in plain}

EmptyString == <<>>

SortKeyStrings ==
  {EmptyString} \cup HeightStrings
    \cup {h \o <<",", "h">> : h \in HeightStrings}
    \cup {h \o <<",", "t", ",", "h">> : h \in HeightStrings}

\* str.split(",")
RECURSIVE split(_)
split(str) ==
  IF \A i \in 1..Len(str) : str[i] # ","
  THEN <<str>>
  ELSE LET c == CHOOSE i \in 1..Len(str) :
                  str[i] = "," /\ \A j \in 1..(i - 1) : str[j] # ","
       IN <<SubSeq(str, 1, c - 1)>> \o split(SubSeq(str, c + 1, Len(str)))

\* parts.join(",")
RECURSIVE join(_)
join(parts) ==
  IF Len(parts) = 0 THEN EmptyString
  ELSE IF Len(parts) = 1 THEN parts[1]
  ELSE parts[1] \o <<",">> \o join(Tail(parts))

padStartOneMore(str, width, ch) == <<ch>> \o str

\* str.padStart(width, ch)
padStart(str, width, ch) ==
  IF Len(str) >= width THEN str
  ELSE [i \in 1..(width - Len(str)) |-> ch] \o str

DigitValue(ch) ==
  CASE ch = "0" -> 0 [] ch = "1" -> 1 [] ch = "2" -> 2 [] ch = "3" -> 3 [] ch = "4" -> 4
    [] ch = "5" -> 5 [] ch = "6" -> 6 [] ch = "7" -> 7 [] ch = "8" -> 8 [] ch = "9" -> 9

DigitChar(d) == <<"0", "1", "2", "3", "4", "5", "6", "7", "8", "9">>[d + 1]

\* parseInt(str) of a string of decimal digits
RECURSIVE parseInt(_)
parseInt(str) ==
  IF Len(str) = 0 THEN 0
  ELSE 10 * parseInt(SubSeq(str, 1, Len(str) - 1)) + DigitValue(str[Len(str)])

\* String(num) of a natural number
RECURSIVE String(_)
String(num) ==
  IF num < 10 THEN <<DigitChar(num)>>
  ELSE String(num \div 10) \o <<DigitChar(num % 10)>>

\* padBlockHeight(sortKey): `!sortKey` holds of the empty string
padBlockHeight(sortKey) ==
  IF sortKey = EmptyString THEN sortKey
  ELSE LET parts == split(sortKey)
       IN join(<<padStart(parts[1], PadWidth, "0")>> \o Tail(parts))

incrementNever(sortKey) == sortKey

\* the first function of the pipe on `to`: a block height alone is incremented
incrementBlockHeight(sortKey) ==
  IF sortKey = EmptyString THEN sortKey
  ELSE LET parts == split(sortKey)
       IN IF Len(parts) > 1 THEN join(parts)
          ELSE IF parts[1] = EmptyString THEN parts[1]
          ELSE String(parseInt(parts[1]) + 1)

mapBounds(ctx) ==
  [from |-> padBlockHeight(ctx.from),
   to |-> padBlockHeight(incrementBlockHeight(ctx.to))]

NoQuery == [from |-> EmptyString, to |-> EmptyString]

\* an interaction of a page, of which the code reads the sort key and the tag
\* named Input: a JSON text, not a JSON text, or no such tag
Interactions == [sortKey : SortKeys, Input : {"json", "invalid", "missing"}]

\* the answers of the sequencer: its interactions for the request, in descending
\* order of sort key (two may have the same), of which the page of the response
\* holds the first ones
Descending ==
  {r \in SeqsUpTo(Interactions, MaxSortKey) :
     \A i \in 1..(Len(r) - 1) : r[i].sortKey >= r[i + 1].sortKey}

SuAnswers ==
  UNION {{[page |-> SubSeq(r, 1, k), more |-> SubSeq(r, k + 1, Len(r))] : k \in 0..Len(r)} :
           r \in Descending}

InputParsesAlways(interaction) == TRUE

\* JSON.parse(input) of the value of the Input tag returns; it throws on undefined
\* and on a text that is not JSON
InputParses(interaction) == interaction.Input = "json"

applySpec(interaction) == [sortKey |-> interaction.sortKey, action |-> "parsed"]

push(acc, input) == Append(acc, input)

\* the reducer of the transducer: acc.unshift(input)
unshift(acc, input) == <<input>> \o acc

RECURSIVE transduce(_, _)
transduce(acc, interactions) ==
  IF interactions = <<>> THEN acc
  ELSE transduce(unshift(acc, applySpec(Head(interactions))), Tail(interactions))

\* z.array(interactionSchema).parse of a list that satisfies the schema (of dal.js,
\* which has to hold of { sortKey, action }): the list, element by element
interactionSchemaParse(interactions) ==
  [i \in 1..Len(interactions) |->
     [sortKey |-> interactions[i].sortKey, action |-> interactions[i].action]]

\* loadInteractions(ctx) up to the fetch: the bounds are mapped, the request is sent
loadInteractions ==
  /\ liPc = "idle"
  /\ liQuery' = mapBounds(liCtx)
  /\ liPc' = "fetching"
  /\ UNCHANGED <<liCtx, liSu, liWhy, liResult>>
  /\ UNCHANGED outsideLoad

LoadRejects(why) ==
  /\ liPc' = "rejected"
  /\ liWhy' = why
  /\ UNCHANGED liResult

\* the response arrives and the chain of .then runs: res.json(),
\* interactionsPageSchema.parse, the transducer, z.array(interactionSchema).parse
PageResponds ==
  /\ liPc = "fetching"
  /\ \E su \in SuAnswers :
       /\ liSu' = su
       /\ \/ LoadRejects("fetch")
          \/ LoadRejects("pageSchema")
          \/ IF \E i \in 1..Len(su.page) : ~InputParses(su.page[i])
             THEN LoadRejects("input")
             ELSE \/ LoadRejects("interactionSchema")
                  \/ /\ liPc' = "resolved"
                     /\ liResult' = interactionSchemaParse(transduce(<<>>, su.page))
                     /\ UNCHANGED liWhy
  /\ UNCHANGED <<liCtx, liQuery>>
  /\ UNCHANGED outsideLoad

LoadIdle ==
  /\ liPc = "idle"
  /\ liCtx = NoQuery
  /\ liQuery = NoQuery
  /\ liSu = [page |-> <<>>, more |-> <<>>]
  /\ liWhy = ""
  /\ liResult = <<>>

LoadNext == loadInteractions \/ PageResponds

\* the part of loadInteractions that maps the bounds, alone
BoundsNext == loadInteractions

----
(***************************************************************************)
(* isLaterThan on two evaluations, called in both directions               *)
(***************************************************************************)

\* the evaluations compared: a timestamp and a cron, absent, empty or an interval
Evaluations == [timestamp : Timestamps, cron : Crons]

CompareForward ==
  /\ ltForward = <<>>
  /\ ltForward' = <<isLaterThan(ltEval1, ltEval2)>>
  /\ UNCHANGED <<ltEval1, ltEval2, ltBackward>>
  /\ UNCHANGED outsideOrder

CompareBackward ==
  /\ ltBackward = <<>>
  /\ ltBackward' = <<isLaterThan(ltEval2, ltEval1)>>
  /\ UNCHANGED <<ltEval1, ltEval2, ltForward>>
  /\ UNCHANGED outsideOrder

OrderIdle ==
  /\ ltEval1 = [timestamp |-> 1, cron |-> Undefined]
  /\ ltEval2 = [timestamp |-> 1, cron |-> Undefined]
  /\ ltForward = <<>>
  /\ ltBackward = <<>>

OrderNext == CompareForward \/ CompareBackward

----
(***************************************************************************)
(* writeMessage of the MU's sequencer client                               *)
(***************************************************************************)

MaxWrites == 2

\* the data items forwarded, base64
DataItems == {"d1", "d2"}

\* what the SU may answer to POST /message: a status and a body
Statuses == {200, 201, 400, 500}
SuResponses == [status : Statuses, body : {"{id}"}]

NoResponse == [none |-> TRUE]
Pending == [pending |-> TRUE]

\* res.ok of a fetch Response
Ok(res) == res.status \in 200..299

\* what the function given to fromPromise returns for the fetch it started: the
\* call of fetch is a statement in braces, so nothing is returned
FetchReturned(response) == NoResponse

\* JSON.parse of a body
ParsedJson(body) == [json |-> body]

\* the success branch of the bichain on res: on undefined `!res?.ok` holds and
\* res.text() throws a TypeError
HandleRes(res) ==
  IF res = NoResponse
  THEN [rejected |-> "TypeError"]
  ELSE IF ~Ok(res)
       THEN [rejected |-> "Error", status |-> res.status, text |-> res.body]
       ELSE [resolved |-> ParsedJson(res.body)]

\* writeMessage(data): the POST is sent
writeMessage ==
  \E data \in DataItems :
    /\ nWrites < MaxWrites
    /\ nWrites' = nWrites + 1
    /\ wmCalls' = wmCalls \cup
         {[n |-> nWrites + 1, data |-> data, response |-> NoResponse, outcome |-> Pending]}
    /\ UNCHANGED outsideWrite

\* the SU answers the POST of a call
SuResponds ==
  \E c \in wmCalls : \E response \in SuResponses :
    /\ c.response = NoResponse
    /\ wmCalls' = (wmCalls \ {c}) \cup {[c EXCEPT !.response = response]}
    /\ UNCHANGED nWrites
    /\ UNCHANGED outsideWrite

\* the promise of a call settles: the chain runs on what fromPromise's function
\* returned, which does not wait for the SU
WriteSettles ==
  \E c \in wmCalls :
    /\ c.outcome = Pending
    /\ wmCalls' = (wmCalls \ {c}) \cup
         {[c EXCEPT !.outcome = HandleRes(FetchReturned(c.response))]}
    /\ UNCHANGED nWrites
    /\ UNCHANGED outsideWrite

WriteIdle ==
  /\ wmCalls = {}
  /\ nWrites = 0

WriteNext == writeMessage \/ SuResponds \/ WriteSettles

----
(***************************************************************************)
(* saveProcess and the document store                                      *)
(***************************************************************************)

MaxProcSaves == 2

\* the processes saved: an id, which may start with an underscore, and the rest
\* of the process (owner, signature, data, anchor, tags, block) as one value
Processes == [id : {"a", "_b"}, owner : {"o1", "o2"}]

\* createProcessId: `proc-${processId}`
createProcessId(process) == <<"proc-", process.id>>

\* the applySpec of saveProcess
ProcessDoc(process) ==
  [_id |-> createProcessId(process), processId |-> process.id,
   owner |-> process.owner, type |-> "process"]

\* a mutant of the error branch: a conflict rejects like any other error
OnPutErrorRejects(status, doc) == [rejected |-> status]

\* the error branch of the bichain on pouchDb.put: 409 resolves with the doc
OnPutError(status, doc) ==
  IF status = 409 THEN [resolved |-> doc] ELSE [rejected |-> status]

\* .map(always(doc._id)) on the outcome of the bichain
AlwaysDocId(settled, doc) ==
  IF "resolved" \in DOMAIN settled THEN [resolved |-> doc._id] ELSE settled

\* saveProcess(process) up to pouchDb.put: the doc is built and parsed with
\* processDocSchema, which throws on a doc it does not accept
saveProcess ==
  \E process \in Processes : \E parses \in BOOLEAN :
    /\ nProcSaves < MaxProcSaves
    /\ nProcSaves' = nProcSaves + 1
    /\ spCalls' = spCalls \cup
         {[n |-> nProcSaves + 1, process |-> process, doc |-> ProcessDoc(process),
           answer |-> IF parses THEN "none" ELSE "unsent",
           outcome |-> IF parses THEN Pending ELSE [rejected |-> "ZodError"]]}
    /\ UNCHANGED pouchDb
    /\ UNCHANGED outsideProcess

\* pouchDb.put(doc) stored the doc: there was no document with its _id
PutStores ==
  \E c \in spCalls :
    /\ c.outcome = Pending
    /\ c.doc._id \notin DOMAIN pouchDb
    /\ pouchDb' = [k \in DOMAIN pouchDb \cup {c.doc._id} |->
                     IF k = c.doc._id THEN c.doc ELSE pouchDb[k]]
    /\ spCalls' = (spCalls \ {c}) \cup
         {[c EXCEPT !.answer = "ok", !.outcome = AlwaysDocId([resolved |-> "ok"], c.doc)]}
    /\ UNCHANGED nProcSaves
    /\ UNCHANGED outsideProcess

\* pouchDb.put(doc) failed: with 409 when a document with that _id exists, or
\* with another error; the store keeps its documents
PutFails ==
  \E c \in spCalls : \E status \in {409, 500} :
    /\ c.outcome = Pending
    /\ status = 409 => c.doc._id \in DOMAIN pouchDb
    /\ pouchDb' = pouchDb
    /\ spCalls' = (spCalls \ {c}) \cup
         {[c EXCEPT !.answer = IF status = 409 THEN "conflict" ELSE "error",
                    !.outcome = AlwaysDocId(OnPutError(status, c.doc), c.doc)]}
    /\ UNCHANGED nProcSaves
    /\ UNCHANGED outsideProcess

ProcessIdle ==
  /\ pouchDb = <<>>
  /\ spCalls = {}
  /\ nProcSaves = 0

ProcessNext == saveProcess \/ PutStores \/ PutFails

----
(***************************************************************************)
(* saveCheckpoint and the Arweave gateway                                  *)
(***************************************************************************)

MaxCheckpoints == 2

\* the evaluations checkpointed: one process, nonce and timestamp, with a cron
\* that is absent, empty or an interval, and an encoding that is empty or gzip;
\* strings are sequences of characters, the module id ends with a blank
CheckpointArgs ==
  [processId : {<<"p">>}, moduleId : {<<"m", " ">>}, epoch : {0}, nonce : {1},
   timestamp : {1}, blockHeight : {1}, cron : Crons, encoding : {"", "gzip"},
   Memory : {"mem"}]

\* the address of this CU's wallet, and another owner
Self == "self"
Owners == {Self, "other"}

\* a cron in a condition: undefined and the empty string are falsy
Truthy(cron) == cron # Undefined /\ cron # 0

\* an encoding in a condition: the empty string is falsy
TruthyEncoding(encoding) == encoding # ""

\* str.trim()
RECURSIVE trim(_)
trim(str) ==
  IF Len(str) > 0 /\ str[1] = " " THEN trim(Tail(str))
  ELSE IF Len(str) > 0 /\ str[Len(str)] = " " THEN trim(SubSeq(str, 1, Len(str) - 1))
  ELSE str

\* hashWasmMemory(Readable.from(Memory), encoding)
hashWasmMemory(Memory, encoding) == <<"sha", Memory, encoding>>

\* a mutant of the cron tag: pushed whatever cron is
CronTagAlways(cron) == <<[name |-> "Cron-Interval", value |-> cron]>>

\* if (cron) dataItem.tags.push({ name: 'Cron-Interval', value: cron })
CronTag(cron) ==
  IF Truthy(cron) THEN <<[name |-> "Cron-Interval", value |-> cron]>> ELSE <<>>

\* if (encoding) dataItem.tags.push({ name: 'Content-Encoding', value: encoding })
EncodingTag(encoding) ==
  IF TruthyEncoding(encoding) THEN <<[name |-> "Content-Encoding", value |-> encoding]>> ELSE <<>>

\* the dataItem of createCheckpointDataItem, given the hash
createCheckpointDataItem(a, sha) ==
  [data |-> a.Memory,
   tags |-> << [name |-> "Data-Protocol", value |-> "ao"],
               [name |-> "Variant", value |-> "ao.TN.1"],
               [name |-> "Type", value |-> "Checkpoint"],
               [name |-> "Module", value |-> trim(a.moduleId)],
               [name |-> "Process", value |-> trim(a.processId)],
               [name |-> "Epoch", value |-> trim(String(a.epoch))],
               [name |-> "Nonce", value |-> trim(String(a.nonce))],
               [name |-> "Timestamp", value |-> trim(String(a.timestamp))],
               [name |-> "Block-Height", value |-> trim(String(a.blockHeight))],
               [name |-> "Content-Type", value |-> "application/octet-stream"],
               [name |-> "SHA-256", value |-> sha] >>
             \o CronTag(a.cron) \o EncodingTag(a.encoding)]

\* buildAndSignDataItem: the item as the gateway will report it
buildAndSignDataItem(dataItem) == [owner |-> Self, tags |-> dataItem.tags]

\* whether a data item has the tag name with one of the values
HasTag(item, name, values) ==
  \E i \in 1..Len(item.tags) : item.tags[i].name = name /\ item.tags[i].value \in values

\* the variables of the query
QueryVariables(a) ==
  [owner |-> Self, processId |-> a.processId, nonce |-> String(a.nonce),
   timestamp |-> String(a.timestamp), cron |-> a.cron]

\* GET_AO_PROCESS_CHECKPOINTS(!!cron): the items the query selects
Selected(items, variables) ==
  {item \in items :
     /\ item.owner = variables.owner
     /\ HasTag(item, "Data-Protocol", {"ao"})
     /\ HasTag(item, "Type", {"Checkpoint"})
     /\ HasTag(item, "Process", {variables.processId})
     /\ HasTag(item, "Nonce", {variables.nonce})
     /\ HasTag(item, "Timestamp", {variables.timestamp})
     /\ Truthy(variables.cron) => HasTag(item, "Cron-Interval", {variables.cron})}

\* path(['data', 'transactions', 'edges', '0']): the first edge, if there is one
FirstEdge(edges) == IF edges = {} THEN {NoCheckpoint} ELSE edges

\* a mutant of the test on the checkpoint: never a no-op
NoopNever(checkpoint) == FALSE

\* if (checkpoint) return Resolved()
Noop(checkpoint) == checkpoint # NoCheckpoint

\* the call c moves on
CkStep(c, d) == ckCalls' = (ckCalls \ {c}) \cup {d}

\* a step of the chain rejected: the promise of the call rejects
CkRejects(c, step) == CkStep(c, [c EXCEPT !.pc = "settled", !.outcome = [rejected |-> step]])

\* saveCheckpoint(args): address() settles and the query is sent
saveCheckpoint ==
  \E a \in CheckpointArgs : \E addressOk \in BOOLEAN :
    /\ nCheckpoints < MaxCheckpoints
    /\ nCheckpoints' = nCheckpoints + 1
    /\ ckCalls' = ckCalls \cup
         {[n |-> nCheckpoints + 1, args |-> a, checkpoint |-> NoCheckpoint,
           sha |-> <<>>, item |-> NoCheckpoint,
           pc |-> IF addressOk THEN "querying" ELSE "settled",
           outcome |-> IF addressOk THEN Pending ELSE [rejected |-> "address"]]}
    /\ UNCHANGED <<gateway, uploads>>
    /\ UNCHANGED outsideCheckpoint

\* queryGateway settled
GatewayReports ==
  \E c \in ckCalls :
    /\ c.pc = "querying"
    /\ \/ \E checkpoint \in FirstEdge(Selected(gateway, QueryVariables(c.args))) :
            IF Noop(checkpoint)
            THEN CkStep(c, [c EXCEPT !.pc = "settled", !.checkpoint = checkpoint,
                                     !.outcome = [resolved |-> "noop"]])
            ELSE CkStep(c, [c EXCEPT !.pc = "hashing", !.checkpoint = checkpoint])
       \/ CkRejects(c, "queryGateway")
    /\ UNCHANGED <<gateway, uploads, nCheckpoints>>
    /\ UNCHANGED outsideCheckpoint

\* hashWasmMemory settled
HashDone ==
  \E c \in ckCalls :
    /\ c.pc = "hashing"
    /\ \/ CkStep(c, [c EXCEPT !.pc = "signing",
                               !.sha = hashWasmMemory(c.args.Memory, c.args.encoding)])
       \/ CkRejects(c, "hashWasmMemory")
    /\ UNCHANGED <<gateway, uploads, nCheckpoints>>
    /\ UNCHANGED outsideCheckpoint

\* buildAndSignDataItem settled
SignDone ==
  \E c \in ckCalls :
    /\ c.pc = "signing"
    /\ \/ CkStep(c, [c EXCEPT !.pc = "uploading",
                               !.item = buildAndSignDataItem(
                                          createCheckpointDataItem(c.args, c.sha))])
       \/ CkRejects(c, "buildAndSignDataItem")
    /\ UNCHANGED <<gateway, uploads, nCheckpoints>>
    /\ UNCHANGED outsideCheckpoint

\* uploadDataItem settled: an uploaded item is reported by the gateway from then on
UploadDone ==
  \E c \in ckCalls :
    /\ c.pc = "uploading"
    /\ \/ /\ CkStep(c, [c EXCEPT !.pc = "settled", !.outcome = [resolved |-> "uploaded"]])
          /\ uploads' = uploads \cup {[n |-> c.n, item |-> c.item]}
          /\ gateway' = gateway \cup {c.item}
       \/ /\ CkRejects(c, "uploadDataItem")
          /\ UNCHANGED <<gateway, uploads>>
    /\ UNCHANGED nCheckpoints
    /\ UNCHANGED outsideCheckpoint

CheckpointIdle ==
  /\ gateway = {}
  /\ uploads = {}
  /\ ckCalls = {}
  /\ nCheckpoints = 0

CheckpointNext ==
  saveCheckpoint \/ GatewayReports \/ HashDone \/ SignDone \/ UploadDone

----
CacheInit ==
  /\ CheckpointIdle
  /\ ProcessIdle
  /\ WriteIdle
  /\ OrderIdle
  /\ CacheIdle
  /\ FindIdle
  /\ MonitorIdle
  /\ HydrateIdle
  /\ LoadIdle

SpecCache == CacheInit /\ [][CacheNext]_vars

\* the cache as saveLatestProcessMemory leaves it: no entry, or one it stored
FindInit ==
  /\ CheckpointIdle
  /\ ProcessIdle
  /\ WriteIdle
  /\ OrderIdle
  /\ cache \in {<<>>} \cup
       {CacheSet(<<>>, a.processId, CacheEntry(a)) :
          a \in {x \in SaveArgs : x.processId = "p1" /\ x.Memory = [raw |-> "mem1"]}}
  /\ saveCalls = {}
  /\ nSaves = 0
  /\ passed = [p \in ProcessIds |-> {}]
  /\ ignoredCalls = {}
  /\ lru = IF cache = <<>> THEN <<>> ELSE <<"p1">>
  /\ onEvictionCalls = <<>>
  /\ FindIdle
  /\ MonitorIdle
  /\ HydrateIdle
  /\ LoadIdle

\* the monitors as stored: new (lastFromSortKey null), some of them not valid
MonitorInit ==
  /\ CheckpointIdle
  /\ ProcessIdle
  /\ WriteIdle
  /\ OrderIdle
  /\ monitorDb \in [MonitorIds -> [valid : BOOLEAN, lastFromSortKey : {NullSortKey}]]
  /\ pendingTicks = {}
  /\ nTicks = 0
  /\ runningMonitorList = <<>>
  /\ runs = {}
  /\ nRuns = 0
  /\ cuMax = [id \in MonitorIds |-> 0]
  /\ cuInclusive \in BOOLEAN
  /\ savedMsgs = [id \in MonitorIds |-> {}]
  /\ cranked = [id \in MonitorIds |-> [k \in SortKeys |-> 0]]
  /\ lastOk = NoRun
  /\ skipped = FALSE
  /\ CacheIdle
  /\ FindIdle
  /\ HydrateIdle
  /\ LoadIdle

HydrateInit ==
  /\ CheckpointIdle
  /\ ProcessIdle
  /\ WriteIdle
  /\ OrderIdle
  /\ HydrateIdle
  /\ CacheIdle
  /\ FindIdle
  /\ MonitorIdle
  /\ LoadIdle

\* a call of loadInteractions without bounds or with block heights as bounds
LoadInit ==
  /\ CheckpointIdle
  /\ ProcessIdle
  /\ WriteIdle
  /\ OrderIdle
  /\ liPc = "idle"
  /\ liCtx \in [from : {EmptyString, <<"1">>}, to : {EmptyString, <<"1", "9">>}]
  /\ liQuery = NoQuery
  /\ liSu = [page |-> <<>>, more |-> <<>>]
  /\ liWhy = ""
  /\ liResult = <<>>
  /\ CacheIdle
  /\ FindIdle
  /\ MonitorIdle
  /\ HydrateIdle

SpecFind == FindInit /\ [][FindNext]_vars

SpecMonitor == MonitorInit /\ [][MonitorNext]_vars

\* SpecMonitor with the event loop's progress: a loaded tick is processed and
\* every awaited promise of a run settles
SpecMonitorLive ==
  /\ MonitorInit
  /\ [][MonitorNext]_vars
  /\ WF_vars(TickProcess)
  /\ WF_vars(FetchResponds)
  /\ WF_vars(SaveMsgsDone)
  /\ WF_vars(FindLatestMsgsDone)
  /\ WF_vars(CrankDone)
  /\ WF_vars(UpdateMonitorDone)

SpecHydrate == HydrateInit /\ [][HydrateNext]_vars

\* the pipeline with its scheduling: a transform that has a message in front of
\* it and is not destroyed gets to run
SpecHydrateLive ==
  /\ HydrateInit
  /\ [][HydrateNext]_vars
  /\ WF_vars(maybeMessageId)
  /\ WF_vars(maybeAoLoad)
  /\ WF_vars(maybeAoAssignment)
  /\ WF_vars(ensureSchema)

\* a call of loadInteractions with any two sort keys as from and to
BoundsInit ==
  /\ CheckpointIdle
  /\ ProcessIdle
  /\ WriteIdle
  /\ OrderIdle
  /\ liPc = "idle"
  /\ liCtx \in [from : SortKeyStrings, to : SortKeyStrings]
  /\ liQuery = NoQuery
  /\ liSu = [page |-> <<>>, more |-> <<>>]
  /\ liWhy = ""
  /\ liResult = <<>>
  /\ CacheIdle
  /\ FindIdle
  /\ MonitorIdle
  /\ HydrateIdle

SpecLoad == LoadInit /\ [][LoadNext]_vars

\* any two evaluations
OrderInit ==
  /\ CheckpointIdle
  /\ ProcessIdle
  /\ WriteIdle
  /\ ltEval1 \in Evaluations
  /\ ltEval2 \in Evaluations
  /\ ltForward = <<>>
  /\ ltBackward = <<>>
  /\ CacheIdle
  /\ FindIdle
  /\ MonitorIdle
  /\ HydrateIdle
  /\ LoadIdle

SpecOrder == OrderInit /\ [][OrderNext]_vars

WriteInit ==
  /\ CheckpointIdle
  /\ ProcessIdle
  /\ WriteIdle
  /\ CacheIdle
  /\ FindIdle
  /\ MonitorIdle
  /\ HydrateIdle
  /\ LoadIdle
  /\ OrderIdle

SpecWrite == WriteInit /\ [][WriteNext]_vars

ProcessInit ==
  /\ CheckpointIdle
  /\ ProcessIdle
  /\ CacheIdle
  /\ FindIdle
  /\ MonitorIdle
  /\ HydrateIdle
  /\ LoadIdle
  /\ OrderIdle
  /\ WriteIdle

SpecProcess == ProcessInit /\ [][ProcessNext]_vars

\* the gateway reports nothing, or a Checkpoint of the evaluation with the cron
\* interval, published earlier by this CU or by another owner
CheckpointInit ==
  /\ gateway \in
       {{}} \cup
       {{[buildAndSignDataItem(createCheckpointDataItem(a, hashWasmMemory(a.Memory, a.encoding)))
            EXCEPT !.owner = owner]} :
          a \in {x \in CheckpointArgs : x.cron = 1 /\ x.encoding = "gzip"},
          owner \in Owners}
  /\ uploads = {}
  /\ ckCalls = {}
  /\ nCheckpoints = 0
  /\ CacheIdle
  /\ FindIdle
  /\ MonitorIdle
  /\ HydrateIdle
  /\ LoadIdle
  /\ OrderIdle
  /\ WriteIdle
  /\ ProcessIdle

SpecCheckpoint == CheckpointInit /\ [][CheckpointNext]_vars

SpecBounds == BoundsInit /\ [][BoundsNext]_vars
----
(***************************************************************************)
(* The claims about the process memory cache (SpecCache)                   *)
(***************************************************************************)

\* C1: a call of saveLatestProcessMemory for process P that found in the cache an
\* entry whose evaluation is later than the incoming one (greater timestamp, or
\* equal timestamp and greater cron), and that no other call has overwritten
\* since, leaves the entry for P as it was: same evaluation, same Memory.
C1_LaterEntryIsKept ==
  [][\A c \in saveCalls :
       ( /\ c \notin saveCalls'
         /\ c.cached # NoEntry
         /\ CacheGet(cache, c.args.processId) = c.cached
         /\ isLaterThan(Incoming(c.args), c.cached.evaluation) )
       => CacheGet(cache', c.args.processId) = c.cached]_vars

\* C2: once every concurrent call of saveLatestProcessMemory has written, the
\* evaluation the cache holds for a process is the latest, by timestamp then
\* cron, of the evaluations passed to the calls for that process.
C2_CacheHoldsLatest ==
  saveCalls = {} =>
    \A p \in ProcessIds : \A e \in passed[p] :
      /\ p \in DOMAIN cache
      /\ ~isLaterThan(cache[p].evaluation, e)

\* the call found no entry for its process, or one with an earlier evaluation
FoundNoneOrEarlier(c) ==
  \/ c.cached = NoEntry
  \/ /\ isLaterThan(c.cached.evaluation, Incoming(c.args))
     /\ ~isLaterThan(Incoming(c.args), c.cached.evaluation)

\* the entry holds the evaluation of the arguments and their Memory, compressed
HoldsIncoming(entry, a) ==
  /\ entry # NoEntry
  /\ IsGzipped(entry.Memory)
  /\ gunzipP(entry.Memory) = a.Memory
  /\ entry.evaluation.encoding = "gzip"
  /\ \A f \in {"processId", "moduleId", "timestamp", "epoch", "nonce",
                "blockHeight", "ordinate", "cron"} : entry.evaluation[f] = a[f]

\* C25: a call of saveLatestProcessMemory for process P that found no entry for P,
\* or an entry with an evaluation earlier than the incoming one, does not return
\* without writing, and its cache.set leaves as the entry of P the incoming
\* evaluation (processId, moduleId, timestamp, epoch, nonce, blockHeight,
\* ordinate, cron) with encoding 'gzip' and the gzip-compressed Memory.
C25_NoneOrEarlierIsReplaced ==
  /\ [](\A c \in ignoredCalls : ~FoundNoneOrEarlier(c))
  /\ [][\A c \in saveCalls :
          (c \notin saveCalls' /\ FoundNoneOrEarlier(c))
          => HoldsIncoming(CacheGet(cache', c.args.processId), c.args)]_vars

\* two calls for p1 have completed, the later evaluation written last over the earlier
C25_EarlierReplacedByLater ==
  /\ saveCalls = {}
  /\ nSaves = 2
  /\ "p1" \in DOMAIN cache
  /\ cache["p1"].evaluation.timestamp = 2
  /\ cache["p1"].Memory = gzipP([raw |-> "mem2"])
  /\ \E e \in passed["p1"] : e.timestamp = 1

\* the entries of the keys that are in the cache before the step and not after it
Gone == {[key |-> k, value |-> cache[k]] : k \in DOMAIN cache \ DOMAIN cache'}

\* the calls of onEviction of the step
NewEvictionCalls ==
  {onEvictionCalls'[i] : i \in (Len(onEvictionCalls) + 1)..Len(onEvictionCalls')}

\* C24: onEviction is called exactly for the entries that cache.set removes to
\* make room (capacity eviction), once each, with the entry's key and value; a
\* step that overwrites an entry or removes one for another reason (its ttl
\* passed) calls it for nothing.
C24_OnEvictionIffCapacityEviction ==
  [][/\ Len(onEvictionCalls') >= Len(onEvictionCalls)
     /\ SubSeq(onEvictionCalls', 1, Len(onEvictionCalls)) = onEvictionCalls
     /\ IF saveCalls' # saveCalls
        THEN /\ NewEvictionCalls = Gone
             /\ Len(onEvictionCalls') = Len(onEvictionCalls) + Cardinality(Gone)
        ELSE onEvictionCalls' = onEvictionCalls]_vars

\* an entry was evicted for capacity, and the entry that took its room has expired
C24_EvictedThenExpired ==
  /\ Len(onEvictionCalls) = 1
  /\ onEvictionCalls[1].key = "p1"
  /\ nSaves = 2
  /\ saveCalls = {}
  /\ cache = <<>>

\* the cron as the claim orders it: an absent cron is the empty string
CronOf(e) == IF e.cron = Undefined THEN 0 ELSE e.cron

\* b is later than a: a greater timestamp, or the same timestamp and a greater cron
Later(a, b) ==
  \/ b.timestamp > a.timestamp
  \/ b.timestamp = a.timestamp /\ CronOf(b) > CronOf(a)

\* C26: isLaterThan(a, b) is true exactly when b's timestamp is greater than a's,
\* or the timestamps are equal and b's cron is greater than a's, an absent cron
\* being the empty string, which is smaller than any interval; so it is true for
\* {t, cron: ''} and {t, cron: '1m'}, true for {t} and {t + 1}, false for (a, a),
\* and never true in both directions.
C26_LaterIffTimestampThenCron ==
  /\ ltForward # <<>> =>
       /\ ltForward = <<Later(ltEval1, ltEval2)>>
       /\ (ltEval1 = ltEval2) => ltForward = <<FALSE>>
       /\ ( /\ ltEval1.timestamp = ltEval2.timestamp
            /\ ltEval1.cron \in {Undefined, 0}
            /\ ltEval2.cron = 1 ) => ltForward = <<TRUE>>
       /\ (ltEval2.timestamp = ltEval1.timestamp + 1) => ltForward = <<TRUE>>
  /\ ltBackward # <<>> => ltBackward = <<Later(ltEval2, ltEval1)>>
  /\ ~(ltForward = <<TRUE>> /\ ltBackward = <<TRUE>>)

\* an evaluation without cron and one with the empty cron at the same timestamp
\* were compared in both directions: neither is later
C26_AbsentAndEmptyCronCompared ==
  /\ ltEval1.cron = Undefined
  /\ ltEval2.cron = 0
  /\ ltEval1.timestamp = ltEval2.timestamp
  /\ ltForward = <<FALSE>>
  /\ ltBackward = <<FALSE>>

----
(***************************************************************************)
(* The claims about findProcessMemoryBefore (SpecFind)                     *)
(***************************************************************************)

\* the gateway has answered and determineLatestCheckpointBefore has run
LatestDetermined == fpPc \in {"download", "resolved", "unsettled"} /\ fpFailure # "gateway"
                    /\ "gatewayQuery" \in {fpTrace[i] : i \in 1..Len(fpTrace)}

\* the places of the checkpoints of the answer that are not later than the request
NotLaterThanRequested ==
  {i \in 1..Len(fpEdges) : ~isLaterThan(Requested(fpArgs), CheckpointOf(fpEdges, i))}

\* C3: determineLatestCheckpointBefore returns a checkpoint that is not later than
\* the requested (timestamp, cron) position and is the latest of the checkpoints
\* that are not later than it, and returns none when every checkpoint of the list
\* is later than the requested position.
C3_LatestNotLaterThanRequested ==
  LatestDetermined =>
    /\ (NotLaterThanRequested = {}) <=> (fpLatest = NoCheckpoint)
    /\ fpLatest # NoCheckpoint =>
         /\ ~isLaterThan(Requested(fpArgs), fpLatest)
         /\ \A i \in NotLaterThanRequested : ~isLaterThan(fpLatest, CheckpointOf(fpEdges, i))

Place(e) ==
  IF \E i \in 1..Len(fpTrace) : fpTrace[i] = e
  THEN CHOOSE i \in 1..Len(fpTrace) : fpTrace[i] = e
  ELSE 0

\* C5: the sources are consulted in the order cache, gateway, cold start: the
\* gateway is queried only after a cache miss, a cache hit is resolved from the
\* cache without a gateway query, and the cold-start value is returned only
\* after the cache missed and the checkpoint lookup produced nothing.
C5_SourcesInOrder ==
  /\ Place("gatewayQuery") > 0 =>
       (Place("cacheMiss") > 0 /\ Place("cacheMiss") < Place("gatewayQuery"))
  /\ Place("cacheHit") > 0 =>
       /\ Place("gatewayQuery") = 0
       /\ fpPc = "resolved" =>
            fpResult = CachedValue(CacheGet(cache, fpArgs.processId),
                                   gunzipP(CacheGet(cache, fpArgs.processId).Memory))
  /\ (fpPc = "resolved" /\ fpResult = ColdStartValue) =>
       /\ Place("cacheMiss") > 0
       /\ Place("cacheMiss") < Place("gatewayQuery")
       /\ Place("gatewayQuery") < Place("checkpointRejected")
       /\ Place("checkpointRejected") < Place("coldStart")

\* a call went through all three sources: the cache held a later evaluation, the
\* gateway listed a checkpoint, its download failed, and the call cold-started
C5_ColdStartAfterBoth ==
  /\ fpPc = "resolved"
  /\ fpCached # NoEntry
  /\ fpTrace = <<"cacheMiss", "gatewayQuery", "checkpointFound", "checkpointRejected", "coldStart">>
  /\ fpResult = ColdStartValue

\* the call resolved with the checkpoint the lookup chose
FromCheckpoint ==
  /\ fpPc = "resolved"
  /\ Place("checkpointFound") > 0
  /\ fpFailure = ""

\* the call resolved with the cached memory
FromCache == fpPc = "resolved" /\ Place("cacheHit") > 0

\* C6 as stated: with an evaluation K1 in the cache and one Checkpoint K2 on
\* Arweave, a call for K3 that resolves starts from the Checkpoint, not the cache,
\* exactly when K2 is not later than K3 and strictly later than K1.
C6_CheckpointIffBetween ==
  (fpPc = "resolved" /\ fpFailure = "" /\ fpCached # NoEntry /\ Len(fpEdges) = 1) =>
    (FromCheckpoint <=>
       /\ ~isLaterThan(Requested(fpArgs), CheckpointOf(fpEdges, 1))
       /\ isLaterThan(fpCached.evaluation, CheckpointOf(fpEdges, 1)))

\* C6 amended: with an evaluation K1 in the cache, a call for K3 starts from the
\* cache whenever K1 is not later than K3, whatever Checkpoint exists, and starts
\* from a Checkpoint only if K1 is later than K3.
C6_CheckpointOnlyOnCacheMiss ==
  (fpPc = "resolved" /\ CacheGet(cache, "p1") # NoEntry) =>
    LET K1 == CacheGet(cache, "p1").evaluation
        cachedIsLater == fpArgs.timestamp # Undefined /\ isLaterThan(Requested(fpArgs), K1)
    IN /\ FromCheckpoint => cachedIsLater
       /\ ~cachedIsLater => (FromCache /\ fpResult.timestamp = K1.timestamp
                                       /\ fpResult.cron = K1.cron
                                       /\ fpResult.Memory = gunzipP(CacheGet(cache, "p1").Memory))

\* a call resolved with a Checkpoint while the cache held an evaluation
C6_CheckpointWithCacheEntry == FromCheckpoint /\ CacheGet(cache, "p1") # NoEntry

\* the call has a requested position and cache.get has returned an entry
CachedAtPosition ==
  fpArgs # NoArgs /\ fpArgs.timestamp # Undefined /\ fpCached # NoEntry

\* C34: a cached entry is used as the starting memory only if its evaluation is
\* not later than the requested (timestamp, cron) position.  For a call with a
\* timestamp that found an entry: the entry is a hit exactly when its evaluation
\* is not later than the position; an entry that is later is a miss and the
\* gateway is asked next; and a call that resolves from the cache resolves with
\* the entry's memory and with a timestamp and cron not later than the position.
C34_CacheUsedOnlyIfNotLater ==
  CachedAtPosition =>
    LET K3 == Requested(fpArgs)
        K1 == fpCached.evaluation
    IN /\ fpTrace[1] = "cacheHit" <=> ~Later(K3, K1)
       /\ Later(K3, K1) => (Len(fpTrace) > 1 /\ fpTrace[2] = "gatewayQuery")
       /\ (fpPc = "resolved" /\ fpTrace = <<"cacheHit">>) =>
            /\ ~Later(K3, [timestamp |-> fpResult.timestamp, cron |-> fpResult.cron])
            /\ fpResult = CachedValue(fpCached, gunzipP(fpCached.Memory))

\* the cache held an evaluation at the requested timestamp with a greater cron:
\* the call took it for a miss and resolved from another source
C34_LaterByCronWasMiss ==
  /\ CachedAtPosition
  /\ fpCached.evaluation.timestamp = fpArgs.timestamp
  /\ Later(Requested(fpArgs), fpCached.evaluation)
  /\ fpTrace[1] = "cacheMiss"
  /\ fpPc = "resolved"

----
(***************************************************************************)
(* The claims about the MU monitor loop (SpecMonitor)                      *)
(***************************************************************************)

\* C7: a monitor has at most one run of processMonitor in flight: the in-flight
\* list never holds a monitor id twice (processMonitor, which pushes, is never
\* started for an id that is in the list), no two suspended runs are of the same
\* monitor, and the monitor of every suspended run is in the list.
C7_OneRunPerMonitor ==
  /\ \A i, j \in 1..Len(runningMonitorList) :
       i # j => runningMonitorList[i].id # runningMonitorList[j].id
  /\ \A r1, r2 \in runs : r1.id = r2.id => r1 = r2
  /\ \A r \in runs : \E i \in 1..Len(runningMonitorList) : runningMonitorList[i].n = r.n

\* a tick found a monitor in flight and did not start it, and that run is still
\* suspended
C7_TickSkippedRunningMonitor == skipped /\ runs # {}

RECURSIVE SeqMax(_)
SeqMax(q) == IF Len(q) = 1 THEN q[1]
             ELSE LET m == SeqMax(Tail(q)) IN IF q[1] > m THEN q[1] ELSE m

\* C8: a run that succeeds (batch saved and cranked, monitor updated) has set the
\* monitor's lastFromSortKey to the maximum scheduledSortKey of the fetched batch
\* and has persisted the monitor with that value.
C8_AdvancesToBatchMax ==
  lastOk # NoRun => lastOk.persisted = SeqMax(lastOk.scheduled)

\* a run succeeded on a batch of more than one scheduled message
C8_RunSucceededOnBatch == lastOk # NoRun /\ Len(lastOk.scheduled) > 1

\* C9: the persisted lastFromSortKey of a monitor never decreases: every value
\* updateMonitor writes is at least the value persisted before it (null counting
\* as below every sort key).
C9_LastFromSortKeyMonotonic ==
  [][\A id \in MonitorIds :
       monitorDb'[id].lastFromSortKey >= monitorDb[id].lastFromSortKey]_vars

\* updateMonitor has written over an earlier written value: the last successful
\* run fetched from a lastFromSortKey that an earlier run had persisted
C9_SecondUpdate ==
  /\ lastOk # NoRun
  /\ lastOk.scheduled[1] > 1
  /\ monitorDb[lastOk.id].lastFromSortKey = lastOk.persisted

\* the run numbers processMonitor can be given
RunNumbers == 1..(MaxTicks * Len(MonitorOrder))

\* the monitor pushed by the n-th run of processMonitor is in the in-flight list
InRunningMonitorList(n) ==
  \E i \in 1..Len(runningMonitorList) : runningMonitorList[i].n = n

\* C31: every started run of processMonitor eventually removes its monitor from
\* runningMonitorList, whether the run succeeds, is skipped or fails: the entry
\* a run pushed does not stay in the list for ever.
C31_RunEventuallyLeavesList ==
  \A n \in RunNumbers : InRunningMonitorList(n) ~> ~InRunningMonitorList(n)

\* the scheduledSortKeys of the batch a run fetched
Batch(r) == {r.scheduled[i] : i \in 1..Len(r.scheduled)}

\* the step is one of the run r: r was resumed and went on or ended
Resumed(r) == r \notin runs'

\* the run r after the step, where it is still in flight
After(r) == {q \in runs' : q.n = r.n}

\* the steps of a run after its fetch, in the order of processMonitor
StepAfter(pc) ==
  CASE pc = "saving" -> "findingMsgs"
    [] pc = "findingMsgs" -> "cranking"
    [] pc = "cranking" -> "updating"
    [] OTHER -> "none"

\* C32: within a run the steps come in the order save, crank, persist the
\* monitor.  A run that is resumed goes on to the next step or ends; it goes on
\* from saving only when this run has saved every message of its batch, it
\* hands the batch to the Cranker only after that, and updateMonitor writes
\* only in a run whose whole batch was saved and handed to the Cranker.  A step
\* of a run that is at saving, at reading the batch back or at cranking leaves
\* the stored monitors as they were, so a run that fails there never calls
\* updateMonitor and the persisted lastFromSortKey is unchanged.
C32_SaveThenCrankThenPersist ==
  [][/\ \A r \in runs :
          Resumed(r) =>
            /\ \A q \in After(r) :
                 /\ (r.pc # "fetching" => q.pc = StepAfter(r.pc))
                 /\ (q.pc \in {"findingMsgs", "cranking", "updating"} =>
                       (q.saved = Batch(q) /\ Batch(q) \subseteq savedMsgs'[q.id]))
                 /\ (q.pc = "updating" => \A k \in Batch(q) : cranked'[q.id][k] >= 1)
            /\ (cranked' # cranked => (r.pc = "cranking" /\ r.saved = Batch(r)))
            /\ (r.pc \in {"fetching", "saving", "findingMsgs", "cranking"} =>
                  monitorDb' = monitorDb)
     /\ (monitorDb' # monitorDb) =>
           \E r \in runs :
             /\ Resumed(r) /\ r.pc = "updating"
             /\ r.saved = Batch(r)
             /\ \A k \in Batch(r) : cranked[r.id][k] >= 1]_vars

\* a run fetched the batch 1, 2 and failed at saving with only the second message
\* saved: nothing was handed to the Cranker, the monitor is as it was stored
C32_FailedAtSaving ==
  \E id \in MonitorIds :
    /\ savedMsgs[id] = {2}
    /\ \A k \in SortKeys : cranked[id][k] = 0
    /\ monitorDb[id].lastFromSortKey = NullSortKey
    /\ ~\E r \in runs : r.id = id
    /\ ~shouldRun(runningMonitorList, id)

\* C33: every run of a monitor fetches from the lastFromSortKey persisted by the
\* most recently completed run of that monitor, whatever the interleaving of
\* ticks and runs: a run that has not yet persisted holds the stored
\* lastFromSortKey of its monitor, and (the CU's from bound being exclusive) no
\* scheduled message is handed to the Cranker twice.
C33_RunsStartFromLastPersisted ==
  /\ \A r \in runs :
       r.pc \in {"fetching", "saving", "findingMsgs", "cranking"} =>
         r.lastFromSortKey = monitorDb[r.id].lastFromSortKey
  /\ ~cuInclusive => \A id \in MonitorIds : \A k \in SortKeys : cranked[id][k] <= 1

\* the run is no longer in flight after the step
Ended(r) == ~\E q \in runs' : q.n = r.n

\* C27: a run whose fetch of the scheduled messages brought none (the CU's list
\* is empty, or the fetch failed) is skipped: it ends there without going on to
\* save, and the step saves no message, hands nothing to the Cranker and leaves
\* the stored monitors, lastFromSortKey included, as they were.
C27_NoScheduledIsSkipped ==
  [][\A r \in runs :
       r.pc = "fetching" =>
         /\ (ScheduledFrom(r.id, r.lastFromSortKey) = <<>>) => (r \in runs' \/ Ended(r))
         /\ Ended(r) => /\ savedMsgs' = savedMsgs
                         /\ cranked' = cranked
                         /\ monitorDb' = monitorDb]_vars

\* several runs were started and every one of them was skipped; the CU has by
\* now a message for a valid monitor
C27_AllRunsSkipped ==
  /\ nRuns > 1
  /\ runs = {}
  /\ runningMonitorList = <<>>
  /\ \A id \in MonitorIds : savedMsgs[id] = {} /\ monitorDb[id].lastFromSortKey = NullSortKey
  /\ \E id \in MonitorIds : cuMax[id] > 0 /\ monitorDb[id].valid

----
(***************************************************************************)
(* The claims about writeMessage (SpecWrite)                               *)
(***************************************************************************)

\* C28: a call of writeMessage whose POST the SU answered and that has settled
\* resolved with the parsed JSON body if the status was 2xx, and rejected with an
\* error carrying the status and the response text otherwise.
C28_ResolvesOn2xxRejectsOtherwise ==
  \A c \in wmCalls :
    (c.response # NoResponse /\ c.outcome # Pending) =>
      IF Ok(c.response)
      THEN c.outcome = [resolved |-> ParsedJson(c.response.body)]
      ELSE c.outcome = [rejected |-> "Error", status |-> c.response.status,
                        text |-> c.response.body]

----
(***************************************************************************)
(* The claims about saveProcess (SpecProcess)                              *)
(***************************************************************************)

\* C29: a call of saveProcess whose put the store answered with 409 Conflict (a
\* document with that _id exists) resolves with 'proc-{id}', the identifier the
\* save that stored the document resolved with, and the put leaves the stored
\* documents as they were; a call whose put failed with another error rejects.
C29_ConflictResolvesOtherErrorRejects ==
  /\ [](\A c \in spCalls :
         /\ c.answer = "conflict" =>
              /\ c.outcome = [resolved |-> <<"proc-", c.process.id>>]
              /\ \E first \in spCalls :
                   /\ first.answer = "ok"
                   /\ first.process.id = c.process.id
                   /\ first.outcome = c.outcome
                   /\ pouchDb[c.doc._id] = first.doc
         /\ c.answer = "error" => "rejected" \in DOMAIN c.outcome)
  /\ [][\A c \in spCalls : \A d \in spCalls' :
          (d.n = c.n /\ c.answer = "none" /\ d.answer = "conflict") => pouchDb' = pouchDb]_vars

\* a process was saved, and saved again with another owner: the second save
\* resolved on the conflict and the store holds the first document
C29_SavedTwice ==
  \E c \in spCalls : \E first \in spCalls :
    /\ c.answer = "conflict"
    /\ first.answer = "ok"
    /\ first.process.id = c.process.id
    /\ first.process.owner # c.process.owner
    /\ c.process.id = "_b"

----
(***************************************************************************)
(* The claims about saveCheckpoint (SpecCheckpoint)                        *)
(***************************************************************************)

\* the names of the tags of a data item
TagNames(item) == {item.tags[i].name : i \in 1..Len(item.tags)}

\* the item is a Checkpoint of this CU for the evaluation of the arguments:
\* same process, nonce, timestamp and cron
SameEvaluation(item, a) ==
  /\ item.owner = Self
  /\ HasTag(item, "Type", {"Checkpoint"})
  /\ HasTag(item, "Process", {a.processId})
  /\ HasTag(item, "Nonce", {String(a.nonce)})
  /\ HasTag(item, "Timestamp", {String(a.timestamp)})
  /\ IF a.cron \in {Undefined, 0}
     THEN "Cron-Interval" \notin TagNames(item)
     ELSE HasTag(item, "Cron-Interval", {a.cron})

\* C21: a call of saveCheckpoint to which the gateway reported a Checkpoint of
\* this CU resolves and hashes, builds, signs and uploads nothing; and a call
\* whose query is answered while the gateway holds a Checkpoint of this CU for
\* the same process, nonce, timestamp and cron goes no further than the query:
\* saving an evaluation again once its Checkpoint is published uploads nothing.
C21_PublishedCheckpointIsNoop ==
  /\ [](\A c \in ckCalls :
         c.checkpoint # NoCheckpoint =>
           /\ c.outcome = [resolved |-> "noop"]
           /\ c.sha = <<>>
           /\ c.item = NoCheckpoint
           /\ \A u \in uploads : u.n # c.n)
  /\ [][\A c \in ckCalls :
          (c.pc = "querying" /\ \E item \in gateway : SameEvaluation(item, c.args))
          => \A d \in ckCalls' :
               d.n = c.n =>
                 \/ d = c
                 \/ d.pc = "settled" /\ d.outcome \in {[resolved |-> "noop"],
                                                       [rejected |-> "queryGateway"]}]_vars

\* an evaluation was checkpointed, and saved again after the upload: a no-op
C21_SavedAgainAfterUpload ==
  \E c \in ckCalls : \E u \in uploads :
    /\ c.outcome = [resolved |-> "noop"]
    /\ u.n < c.n
    /\ SameEvaluation(u.item, c.args)

\* C35: concurrent calls of saveCheckpoint for one evaluation (the same
\* processId, nonce, timestamp and cron) upload at most one Checkpoint data
\* item for it: no two calls for the same evaluation have both uploaded.
C35_OneUploadPerEvaluation ==
  \A c1, c2 \in ckCalls :
    ( /\ c1.args.processId = c2.args.processId
      /\ c1.args.nonce = c2.args.nonce
      /\ c1.args.timestamp = c2.args.timestamp
      /\ c1.args.cron = c2.args.cron
      /\ \E u \in uploads : u.n = c1.n
      /\ \E u \in uploads : u.n = c2.n ) => c1.n = c2.n

\* C22: a call of saveCheckpoint in which the gateway query, the hashing, the
\* signing or the upload failed has resolved once it has settled: no call
\* that has settled has rejected.
C22_FailureResolves ==
  \A c \in ckCalls : c.pc = "settled" => "resolved" \in DOMAIN c.outcome

\* C23: every data item saveCheckpoint has built carries Data-Protocol=ao,
\* Variant=ao.TN.1, Type=Checkpoint, Content-Type=application/octet-stream and
\* the tags Module, Process, Epoch, Nonce, Timestamp, Block-Height and SHA-256;
\* it carries Cron-Interval exactly when the evaluation has a cron (a non-empty
\* one) and Content-Encoding exactly when an encoding (a non-empty one) is given.
C23_CheckpointTags ==
  \A c \in ckCalls :
    c.item # NoCheckpoint =>
      /\ HasTag(c.item, "Data-Protocol", {"ao"})
      /\ HasTag(c.item, "Variant", {"ao.TN.1"})
      /\ HasTag(c.item, "Type", {"Checkpoint"})
      /\ HasTag(c.item, "Content-Type", {"application/octet-stream"})
      /\ {"Module", "Process", "Epoch", "Nonce", "Timestamp", "Block-Height", "SHA-256"}
           \subseteq TagNames(c.item)
      /\ "Cron-Interval" \in TagNames(c.item) <=> c.args.cron \notin {Undefined, 0}
      /\ "Content-Encoding" \in TagNames(c.item) <=> c.args.encoding # ""
      /\ \A u \in uploads : u.n = c.n => u.item = c.item

\* items were built for an evaluation with a cron and no encoding and for one
\* with an encoding and no cron, and the second was uploaded
C23_BuiltWithCronAndWithEncoding ==
  \E c \in ckCalls : \E d \in ckCalls :
    /\ c.item # NoCheckpoint /\ c.args.cron = 1 /\ c.args.encoding = ""
    /\ d.item # NoCheckpoint /\ d.args.cron = Undefined /\ d.args.encoding = "gzip"
    /\ \E u \in uploads : u.n = d.n

----
(***************************************************************************)
(* The claims about the hydration pipeline (SpecHydrate)                   *)
(***************************************************************************)

\* C10: the hydration pipeline emits messages in the relative order in which the
\* source produced them, whichever transforms apply to each message: of two
\* emitted messages the one emitted first is the one the source produced first.
C10_OrderPreserved ==
  \A i, j \in 1..Len(hOut) : i < j => hOut[i].pos < hOut[j].pos

\* two messages were emitted, the first after all three transforms worked on it,
\* the second passed through by all three
C10_SlowThenFastEmitted ==
  /\ Len(hOut) = 2
  /\ hOut[1].applied = {"deepHash", "load", "assignment"}
  /\ hOut[2].applied = {}

\* the source has ended, every transform has worked off its input and none failed
HydrationComplete ==
  /\ hStatus = "ended"
  /\ \A i \in Transforms : hQ[i] = <<>>

\* C11 as stated: when no transform fails, the pipeline emits one message per
\* message of the source: as many messages are emitted as the source produced.
C11_OneOutputPerInput == HydrationComplete => Len(hOut) = hEmitted

\* C11 as the code has it: when no transform fails, every message of the source is
\* either emitted or was dropped by maybeAoLoad, never both, and a dropped message
\* is a Load message that is not a cron message and whose block height is at or
\* above AO_LOAD_MAX_BLOCK.
C11_OneOutputPerInputNotSunset ==
  /\ HydrationComplete =>
       /\ Len(hOut) + Cardinality(hDropped) = hEmitted
       /\ {hOut[i].pos : i \in 1..Len(hOut)} \cup {d.pos : d \in hDropped} = 1..hEmitted
  /\ \A d \in hDropped : d.LoadTag /\ ~d.Cron /\ d.height >= AO_LOAD_MAX_BLOCK

\* a complete run in which one message was emitted and a later-block Load message
\* was dropped
C11_CompleteWithDrop ==
  /\ HydrationComplete
  /\ hError = ""
  /\ Len(hOut) = 1
  /\ Cardinality(hDropped) = 1

\* the messages that maybeMessageId has yielded and the next transform has not
\* taken yet
PastMessageId == {hQ[2][i] : i \in 1..Len(hQ[2])}

\* the messages that have left maybeMessageId, wherever they are now
HasLeftMessageId ==
  UNION {{hQ[k][i] : i \in 1..Len(hQ[k])} : k \in 2..4} \cup {hOut[i] : i \in 1..Len(hOut)}

C13_DeepHashOnlyIfForwardedFor ==
  \A i \in 1..Len(hOut) : hOut[i].deepHash => hOut[i].ForwardedFor

\* the messages that maybeAoLoad has yielded and the next transform has not taken
PastAoLoad == {hQ[3][i] : i \in 1..Len(hQ[3])}

\* cur is as maybeAoLoad was given it: a message of the source, with its deepHash
\* if it was forwarded
AsGivenToAoLoad(cur) ==
  /\ cur.Data = "own"
  /\ cur.overlay = {}
  /\ cur.deepHash = cur.ForwardedBy
  /\ cur.applied = IF cur.ForwardedBy THEN {"deepHash"} ELSE {}

PastAoAssignment == {hQ[4][i] : i \in 1..Len(hQ[4])}

\* cur is as maybeAoAssignment was given it: as maybeAoLoad yields it
AsGivenToAoAssignment(cur) ==
  IF cur.LoadTag /\ ~cur.Cron
  THEN /\ cur.Data = "loadedItem"
       /\ AsGivenToAoLoad([cur EXCEPT !.Data = "own", !.applied = @ \ {"load"}])
  ELSE AsGivenToAoLoad(cur)

\* C15: maybeAoAssignment overwrites, of a message with isAssignment set, exactly
\* the keys Id, Signature, Owner, From, Tags, Anchor and Data of cur.message with
\* the values of the transaction on chain, and leaves the other keys of the message
\* and the envelope (place in the order, deepHash, block) as they were; it yields a
\* message without isAssignment unchanged.
C15_AssignmentOverlaysSevenKeys ==
  \A cur \in PastAoAssignment :
    IF cur.isAssignment
    THEN /\ cur.overlay = {"Id", "Signature", "Owner", "From", "Tags", "Anchor", "Data"}
         /\ cur.Data = "chainData"
         /\ "assignment" \in cur.applied
         /\ AsGivenToAoAssignment(
              [cur EXCEPT !.overlay = {}, !.applied = @ \ {"assignment"},
                          !.Data = IF cur.LoadTag /\ ~cur.Cron THEN "loadedItem" ELSE "own"])
    ELSE AsGivenToAoAssignment(cur)

\* maybeAoAssignment has yielded an assignment that was forwarded, with its deepHash
\* and the overlay, and after it a message that is not an assignment
C15_AssignmentThenOther ==
  /\ Len(hQ[4]) = 2
  /\ hQ[4][1].isAssignment /\ hQ[4][1].deepHash /\ hQ[4][1].overlay # {}
  /\ ~hQ[4][2].isAssignment /\ hQ[4][2].Data = "loadedItem"

\* the hydrated stream is over: the source is closed and no message is under way
Terminated == hStatus # "open" /\ \A i \in Transforms : hQ[i] = <<>>

\* the hydrated stream was destroyed with an error, which its consumer gets
Surfaced == hStatus = "failed"

\* once the source has emitted an error the hydrated stream eventually terminates
SourceErrorTerminates == (hError = "source") ~> Terminated

\* C30: once the source has emitted an error, the hydrated stream eventually
\* terminates, no message left under way, and its consumer has got an error.
C30_SourceErrorTerminatesAndSurfaces ==
  (hError = "source") ~> (Terminated /\ Surfaced)

----
(***************************************************************************)
(* The claims about the message source (SpecLoad, SpecBounds)              *)
(***************************************************************************)

\* C16: loadInteractions resolves with the interactions of the page it was
\* answered, none lost and none twice, in the reverse of the page's order; the
\* page being in descending order of sort key, the result is in non-decreasing
\* order.
C16_PageReversed ==
  liPc = "resolved" =>
    /\ Len(liResult) = Len(liSu.page)
    /\ \A i \in 1..Len(liResult) :
         liResult[i].sortKey = liSu.page[Len(liSu.page) + 1 - i].sortKey
    /\ \A i, j \in 1..Len(liResult) :
         i < j => liResult[i].sortKey <= liResult[j].sortKey

\* a page of more than one interaction was returned
C16_ResolvedWithSeveral == liPc = "resolved" /\ Len(liResult) > 1

\* C17: when the sequencer's interactions for the request are split over several
\* pages, loadInteractions fetches the further pages and resolves with the
\* interactions of every page.
C17_AllPagesDelivered ==
  liPc = "resolved" => Len(liResult) = Len(liSu.page) + Len(liSu.more)

\* the numeric value of the block height of a sort key, and its other fields
HeightOf(sortKey) == parseInt(split(sortKey)[1])
RestOf(sortKey) == Tail(split(sortKey))

\* C18: the request carries `from` with its block height left-padded to 12 digits
\* and nothing else changed, and `to` with its block height incremented by one
\* exactly when `to` is a block height alone, padded to 12 digits, its timestamp
\* and hash unchanged.
C18_BoundsMapped ==
  liPc # "idle" =>
    /\ liCtx.from # EmptyString =>
         /\ Len(split(liQuery.from)[1]) = PadWidth
         /\ HeightOf(liQuery.from) = HeightOf(liCtx.from)
         /\ RestOf(liQuery.from) = RestOf(liCtx.from)
    /\ liCtx.to # EmptyString =>
         /\ Len(split(liQuery.to)[1]) = PadWidth
         /\ HeightOf(liQuery.to) =
              HeightOf(liCtx.to) + (IF RestOf(liCtx.to) = <<>> THEN 1 ELSE 0)
         /\ RestOf(liQuery.to) = RestOf(liCtx.to)

\* a request was sent for a full sort key without padding as `from` and the block
\* height 99 alone as `to`
C18_FullFromHeightTo ==
  /\ liPc # "idle"
  /\ liCtx.from = <<"1", "9", ",", "t", ",", "h">>
  /\ liCtx.to = <<"9", "9">>

\* C19: padBlockHeight is idempotent and leaves the fields after the block height
\* alone: padding the padded `from` and `to` of a request again changes nothing,
\* whatever form the sort key had (a height, height and hash, or full; padded or
\* not).
C19_PadIdempotent ==
  liPc # "idle" =>
    /\ padBlockHeight(liQuery.from) = liQuery.from
    /\ padBlockHeight(liQuery.to) = liQuery.to
    /\ padBlockHeight(padBlockHeight(liCtx.from)) = padBlockHeight(liCtx.from)
    /\ liCtx.from # EmptyString =>
         RestOf(padBlockHeight(liCtx.from)) = RestOf(liCtx.from)

\* the `from` of the request was a sort key of height and hash without padding
C19_PaddedHeightAndHash ==
  /\ liPc # "idle"
  /\ liCtx.from = <<"9", ",", "h">>
  /\ Len(liQuery.from) = PadWidth + 2

\* C20: when the response does not satisfy the page schema, or an interaction of
\* the page cannot be mapped (no Input tag, or one that is not JSON),
\* loadInteractions rejects, and resolves with no list, not with the interactions it
\* could map.
C20_MalformedPageRejects ==
  /\ liWhy \in {"pageSchema", "input"} => (liPc = "rejected" /\ liResult = <<>>)
  /\ (\E i \in 1..Len(liSu.page) : liSu.page[i].Input # "json") =>
       (liPc = "rejected" /\ liResult = <<>>)

\* the call rejected on a page whose first interaction can be mapped and whose
\* second has no Input tag
C20_RejectedOnSecondInteraction ==
  /\ liPc = "rejected"
  /\ liWhy = "input"
  /\ Len(liSu.page) = 2
  /\ liSu.page[1].Input = "json"
  /\ liSu.page[2].Input = "missing"

====
